---- MODULE Spec2Model ----
(***************************************************************************)
(* Model of the VM provisioning pipeline of the vSphere VM provider         *)
(* (pkg/vmprovider/providers/vsphere/vmprovider_vm.go) and of the           *)
(* Operation controller (controllers/operation/operation_controller.go).   *)
(*                                                                         *)
(* Several specifications share the module:                                *)
(*   SpecVM   concurrent CreateOrUpdateVirtualMachine reconciliations, one *)
(*            per VirtualMachine object, sharing the process-wide          *)
(*            concurrentCreateCount guarded by createCountLock;            *)
(*   SpecOp   repeated reconciliations of one Operation object by the      *)
(*            Operation controller, one external call per step, and of     *)
(*            one Plan object by the Plan controller;                      *)
(*   SpecBind vmCreateGetFolderAndRPMoIDs applied to any createArgs and    *)
(*            inventory;                                                   *)
(*   SpecGen  vmCreateGenConfigSpec and the ConfigSpec of vmUpdateGetArgs  *)
(*            applied repeatedly to any inputs;                            *)
(*   SpecDisk the disk resize of the update path applied to any current    *)
(*            and requested capacities;                                    *)
(*   SpecCreate createVirtualMachine of one VirtualMachine object, one     *)
(*            sub-step per action, with the inputs of each sub-step;       *)
(*   SpecCall one call of RelocateVirtualMachine, of                       *)
(*            ReconfigureVirtualMachine, of DeleteChildResourcePool or of  *)
(*            createClientsFromConfig, with any inputs and any answers of  *)
(*            vCenter and of the API server;                               *)
(*   SpecPool calls of CreateOrUpdateChildResourcePool and of              *)
(*            DeleteChildResourcePool, one after the other, on one child   *)
(*            of one parent ResourcePool.                                  *)
(***************************************************************************)
EXTENDS Integers, Sequences, FiniteSets, TLC

\* ------------------------------------------------------------------------
\* Bounds
\* ------------------------------------------------------------------------

\* Number of VirtualMachine objects reconciled concurrently.
NumVMs == 2

\* Largest value of maxDeployThreads explored (values range over -1..MaxLimit).
MaxLimit == 1

\* Number of reconciliations of the Operation object explored.
MaxReconciles == 3

\* Number of times each of the two ConfigSpec builders is invoked on the same
\* inputs.
MaxGen == 2

\* Largest disk capacity explored (capacities range over 1..MaxCapacity).
MaxCapacity == 3

\* Number of virtual disks of the VM.
NumDisks == 2

\* Number of calls made one after the other on the child ResourcePool.
MaxPoolCalls == 3

VMs == 1..NumVMs

LimitValues == (-1)..MaxLimit

\* ------------------------------------------------------------------------
\* State
\* ------------------------------------------------------------------------

VARIABLES
    \* --- package-level state of vmprovider_vm.go ---
    createCountLock,        \* sync.Mutex: 0 when free, else the VM whose reconciliation holds it
    concurrentCreateCount,  \* int guarded by createCountLock
    maxDeployThreads,       \* value stored under MaxDeployThreadsContextKey
    \* --- per VirtualMachine object / reconciliation ---
    pc,                     \* position of the reconciliation of VM v
    vcVM,                   \* TRUE when the vCenter VM of v exists (getVM returns non-nil)
    phase,                  \* vm.Status.Phase
    uniqueID,               \* vm.Status.UniqueID
    trace,                  \* sub-steps entered by the current/last reconciliation, in order
    failed,                 \* sub-step that returned an error in it, or "none"
    result,                 \* what CreateOrUpdateVirtualMachine returned: "none", "nil", "err"
    granted,                \* vmCreateConcurrentAllowed returned true in it
    released,               \* number of times its decrementFn ran
    \* --- Operation controller ---
    operation,              \* the Operation object as read by Reconcile (spec and status)
    opExists,               \* the Operation object exists in the API server
    k8sVM,                  \* the VirtualMachine object named by operation.entityName
    relocated,              \* the vCenter VM has been relocated by a relocate task
    remote,                 \* Operation "import" / Plan "importvm-plan" on the destination
    opPC,                   \* position of the reconciliation of the Operation
    opLog,                  \* calls made by the current/last reconciliation, with outcome
    opResult,               \* what Reconcile returned: "none", "nil", "err", "panic"
    opStartVM,              \* k8sVM when the current/last reconciliation started
    succeeded,              \* calls that returned success in earlier reconciliations
    reconciles,             \* number of reconciliations started
    \* --- Plan controller ---
    plan,                   \* the Plan object: exists, outcome of the last Get, last result
    \* --- vmCreateGetFolderAndRPMoIDs ---
    inventory,              \* what is under the namespace's root pool and folder in vCenter
    createArgs,             \* the vmCreateArgs fields read and written by the resolver
    zoneLabel,              \* the VM's topology zone label ("" when absent)
    bindLog,                \* lookups made by the resolver, in order
    bindErr,                \* "pending", "nil", or the error the resolver returned
    bindNext,               \* what createVirtualMachine does after the resolver returned
    \* --- vmCreateGenConfigSpec / vmUpdateGetArgs ---
    genArgs,                \* the inputs read by the builders, ClassConfigSpec among them
    genOut,                 \* ConfigSpec and PlacementConfigSpec of each vmCreateGenConfigSpec
    updOut,                 \* ConfigSpec of each vmUpdateGetArgs
    \* --- disk resize ---
    disks,                  \* current capacity of each virtual disk
    volumes,                \* requested capacity of each virtual disk
    diskChanges,            \* device changes emitted by the resize
    diskErr,                \* "pending", "nil", or the validation error
    \* --- createVirtualMachine of one VirtualMachine object ---
    crCfg,                  \* vcClient.Config(): StorageClassRequired, Datastore
    crDesired,              \* what the prerequisite fetch finds: policy, storage profile, ...
    crVM,                   \* vmCtx.VM: storage class, annotations, zone label, status
    crStart,                \* crVM when the current reconciliation started
    crArgs,                 \* *vmCreateArgs of the current reconciliation
    crPlacement,            \* what placement.Placement returned in it
    crLog,                  \* calls made by it, in order
    crErr,                  \* "" or the error createVirtualMachine returned
    crPC,                   \* the sub-step createVirtualMachine is about to run
    \* --- one call of a function that talks to vCenter or the API server ---
    callIn,                 \* the function called, its inputs, the other side's answers
    callLog,                \* calls made by it, in order
    callOut,                \* whether it returned, its error and its value
    \* --- the child ResourcePool of one name under one parent ---
    poolInv,                \* what is under the parent by that name, and its MoID
    poolCreated,            \* number of child pools created so far
    poolLog                 \* the calls made so far, in order, with what they returned

varsVM == <<createCountLock, concurrentCreateCount, maxDeployThreads, pc, vcVM,
            phase, uniqueID, trace, failed, result, granted, released>>

varsOp == <<operation, opExists, k8sVM, relocated, remote, opPC, opLog, opResult,
            opStartVM, succeeded, reconciles, plan>>

varsBind == <<inventory, createArgs, zoneLabel, bindLog, bindErr, bindNext>>

\* The variables of the functions that are checked on their own.
varsGen == <<genArgs, genOut, updOut>>

varsDisk == <<disks, volumes, diskChanges, diskErr>>

varsCr == <<crCfg, crDesired, crVM, crStart, crArgs, crPlacement, crLog, crErr, crPC>>

varsCall == <<callIn, callLog, callOut>>

varsPool == <<poolInv, poolCreated, poolLog>>

varsFn == <<varsBind, varsGen, varsDisk, varsCr, varsCall, varsPool>>

vars == <<varsVM, varsOp, varsFn>>

\* ------------------------------------------------------------------------
\* Helpers on sequences
\* ------------------------------------------------------------------------

Range(s) == {s[i] : i \in 1..Len(s)}

\* Index of the first occurrence of x in s, 0 when absent.
IndexOf(s, x) ==
    IF x \in Range(s)
    THEN CHOOSE i \in 1..Len(s) : s[i] = x /\ \A j \in 1..(i-1) : s[j] # x
    ELSE 0

\* The part of s up to and including the first x; all of s when x is absent.
PrefixThrough(s, x) ==
    IF x \in Range(s) THEN SubSeq(s, 1, IndexOf(s, x)) ELSE s

\* ------------------------------------------------------------------------
\* createVirtualMachine: the sub-steps before the admission gate
\* ------------------------------------------------------------------------

\* vmCreateGetArgs: prerequisite fetch, the instance-storage block (it adds
\* the volumes only when lib.IsInstanceStorageFSSEnabled() and returns no
\* error otherwise), storage prerequisites, config spec generation,
\* argument validation.
vmCreateGetArgs ==
    <<"prereqs", "instanceStorage", "storagePrereqs", "genConfigSpec", "validateArgs">>

\* Mutant of createPrefix: Status.Phase = Creating stored before
\* vmCreateGetArgs is called.
createPrefix_PhaseFirst ==
    <<"phaseCreating">>
    \o vmCreateGetArgs
    \o <<"placement", "folderAndRP", "isReady", "maxDeployThreads">>

\* Mutant of createPrefix: placement moved ahead of vmCreateGetArgs'
\* storage resolution and validation.
createPrefix_PlacementEarly ==
    <<"prereqs", "placement", "instanceStorage", "storagePrereqs", "genConfigSpec",
      "validateArgs", "phaseCreating", "folderAndRP", "isReady", "maxDeployThreads">>

\* Mutant of createPrefix: the folder and resource pool are resolved before
\* placement.
createPrefix_BindingBeforePlacement ==
    vmCreateGetArgs
    \o <<"phaseCreating", "folderAndRP", "placement", "isReady", "maxDeployThreads">>

\* createVirtualMachine up to the gate: vmCreateGetArgs, Status.Phase =
\* Creating, placement, folder/resource pool, readiness, the
\* MaxDeployThreadsContextKey lookup.
createPrefix ==
    vmCreateGetArgs
    \o <<"phaseCreating", "placement", "folderAndRP", "isReady", "maxDeployThreads">>

\* Sub-steps that can return an error (genConfigSpec has no error result and
\* the phase assignment is a plain store).
Failable == Range(createPrefix) \ {"genConfigSpec", "phaseCreating"}

\* The sub-steps entered when the first error is returned by failAt
\* ("none": no error).
createEntered(failAt) == PrefixThrough(createPrefix, failAt)

\* Status.Phase after the sub-steps in entered ran.
phaseAfter(old, entered) ==
    IF "phaseCreating" \in Range(entered) THEN "Creating" ELSE old

\* Mutant of gateDenied: off-by-one comparison.
gateDenied_OffByOne(count, limit) == count > limit

\* Mutant of gateDenied: a limit of zero or less means no limit.
gateDenied_NonPositiveIsUnlimited(count, limit) == limit > 0 /\ count >= limit

\* vmCreateConcurrentAllowed's test under the lock.
gateDenied(count, limit) == count >= limit

\* ------------------------------------------------------------------------
\* Operation controller: objects
\* ------------------------------------------------------------------------

\* VirtualMachineSpec values: the one embedded in the Operation and another.
VMSpecs == {"specA", "specB"}

\* A VirtualMachine object that does not exist.
NoVM == [exists |-> FALSE, exported |-> FALSE, spec |-> "specA"]

\* VirtualMachine objects: absent, or present with or without the export
\* annotation.
VMObjects ==
    {NoVM} \cup [exists : {TRUE}, exported : BOOLEAN, spec : VMSpecs]

\* OperationType values; "Other" stands for any string outside the four
\* declared constants.
OperationTypes == {"Import", "Export", "ColdMigration", "LiveMigration", "Other"}

\* Spec.Entities without an EntitySelector.
NoSelector ==
    [present |-> FALSE, resourcePool |-> "", nameRegexPattern |-> "", selector |-> FALSE]

\* Spec.Entities: no EntitySelector, or one with any combination of a
\* resource pool name, a name pattern and a label selector.
Selectors ==
    {NoSelector}
    \cup [present : {TRUE}, resourcePool : {"", "rp-1"},
          nameRegexPattern : {"", "vm-.*"}, selector : BOOLEAN]

\* An Operation object: spec fields read by the controller and the status.
mkOperation(t, name, sel, nics) ==
    [operationType |-> t, entityName |-> name, selector |-> sel, nics |-> nics,
     vmSpec |-> "specA", phase |-> "", taskRef |-> ""]

NoOperation == mkOperation("Other", "", NoSelector, 0)

\* The Operation objects explored.
Operations ==
    {mkOperation("Import", "vm-1", NoSelector, 1)}
    \cup {mkOperation("Import", "", sel, 1) : sel \in Selectors}
    \cup {mkOperation("Export", "vm-1", NoSelector, 1)}
    \cup {mkOperation("ColdMigration", "vm-1", NoSelector, n) : n \in {0, 1}}
    \cup {mkOperation(t, name, sel, n) :
             t \in {"LiveMigration", "Other"}, name \in {"", "vm-1"},
             sel \in {NoSelector, [NoSelector EXCEPT !.present = TRUE, !.resourcePool = "rp-1"]},
             n \in {0, 1}}

\* ------------------------------------------------------------------------
\* Init
\* ------------------------------------------------------------------------

\* The Plan object before it is created, never reconciled.
NoPlan == [exists |-> FALSE, get |-> "none", result |-> "none"]

\* The Operation controller before any Operation object exists.
OpQuiescent ==
    /\ operation = NoOperation
    /\ opExists = FALSE
    /\ k8sVM = NoVM
    /\ relocated = FALSE
    /\ remote = [operation |-> FALSE, plan |-> FALSE]
    /\ opPC = "idle"
    /\ opLog = <<>>
    /\ opResult = "none"
    /\ opStartVM = NoVM
    /\ succeeded = {}
    /\ reconciles = 0
    /\ plan = NoPlan

\* vmCreateArgs before vmCreateGetArgs filled anything in.
NoCreateArgs ==
    [ResourcePoolMoID |-> "", FolderMoID |-> "", ChildResourcePoolName |-> "",
     ChildFolderName |-> ""]

\* A namespace with nothing under its root pool and folder.
EmptyInventory == [childRP |-> "absent", childFolder |-> "absent"]

\* No call of vmCreateGetFolderAndRPMoIDs is observed.
BindQuiescent ==
    /\ inventory = EmptyInventory
    /\ createArgs = NoCreateArgs
    /\ zoneLabel = ""
    /\ bindLog = <<>>
    /\ bindErr = "pending"
    /\ bindNext = "none"

\* A nil *VirtualMachineConfigSpec.
NoClassConfigSpec == [present |-> FALSE, Version |-> "", DeviceChange |-> <<>>]

\* No VM whose ConfigSpec is built.
NoGenArgs ==
    [Name |-> "", VMClassSpec |-> [cpus |-> 0], MinCPUFreq |-> 0, Firmware |-> "",
     ImageHardwareVersion |-> 0, HasPVC |-> FALSE, FSS |-> FALSE,
     FirstBootDone |-> FALSE, ImageFetch |-> "ok", ClassConfigSpec |-> NoClassConfigSpec]

\* No ConfigSpec builder is observed.
GenQuiescent ==
    /\ genArgs = NoGenArgs
    /\ genOut = <<>>
    /\ updOut = <<>>

Disks == 1..NumDisks

Capacities == 1..MaxCapacity

\* No disk resize is observed.
DiskQuiescent ==
    /\ disks = [d \in Disks |-> 1]
    /\ volumes = [d \in Disks |-> 1]
    /\ diskChanges = <<>>
    /\ diskErr = "pending"

\* A zero vmCreateArgs.
NoCrArgs ==
    [ResourcePoolMoID |-> "", HostMoID |-> "", FolderMoID |-> "",
     ChildResourcePoolName |-> "", ChildFolderName |-> "", ResourcePolicy |-> "nil",
     HasInstanceStorage |-> FALSE, StorageProfileID |-> "", DatastoreMoID |-> ""]

\* A VirtualMachine object without storage class, annotations, labels or
\* status.
NoCrVM ==
    [StorageClass |-> "", SelectedNodeMOID |-> "", SelectedNode |-> "", Zone |-> "",
     PVCsBound |-> FALSE, Phase |-> "", UniqueID |-> ""]

\* No placement.Placement call was made.
NoPlacement == [called |-> FALSE]

\* No createVirtualMachine is observed.
CrQuiescent ==
    /\ crCfg = [StorageClassRequired |-> FALSE, Datastore |-> ""]
    /\ crDesired = [ResourcePolicy |-> "nil", ChildResourcePoolName |-> "",
                    ChildFolderName |-> "", HasInstanceStorage |-> FALSE,
                    StorageProfileID |-> ""]
    /\ crVM = NoCrVM
    /\ crStart = NoCrVM
    /\ crArgs = NoCrArgs
    /\ crPlacement = NoPlacement
    /\ crLog = <<>>
    /\ crErr = ""
    /\ crPC = "done"

\* No call is observed.
CallQuiescent ==
    /\ callIn = [fn |-> "none"]
    /\ callLog = <<>>
    /\ callOut = [done |-> TRUE, err |-> <<>>, value |-> <<>>]

\* No call on a child ResourcePool is observed.
PoolQuiescent ==
    /\ poolInv = [state |-> "absent", moid |-> ""]
    /\ poolCreated = 0
    /\ poolLog = <<>>

FnQuiescent ==
    /\ BindQuiescent
    /\ GenQuiescent
    /\ DiskQuiescent
    /\ CrQuiescent
    /\ CallQuiescent
    /\ PoolQuiescent

\* The provider right after the process started: no reconciliation has run.
VMInitial ==
    /\ createCountLock = 0
    /\ concurrentCreateCount = 0
    /\ maxDeployThreads \in LimitValues
    /\ pc = [v \in VMs |-> "idle"]
    /\ vcVM = [v \in VMs |-> FALSE]
    /\ phase = [v \in VMs |-> ""]
    /\ uniqueID = [v \in VMs |-> ""]
    /\ trace = [v \in VMs |-> <<>>]
    /\ failed = [v \in VMs |-> "none"]
    /\ result = [v \in VMs |-> "none"]
    /\ granted = [v \in VMs |-> FALSE]
    /\ released = [v \in VMs |-> 0]

\* The provider state while only the Operation controller is observed.
VMQuiescent == VMInitial /\ maxDeployThreads = 0

InitVM == VMInitial /\ OpQuiescent /\ FnQuiescent

\* ------------------------------------------------------------------------
\* Actions of SpecVM
\* ------------------------------------------------------------------------

\* The calls of one reconciliation that can be the first to return an error:
\* getVcClient and getVM always, and the failable sub-steps of
\* createVirtualMachine when the vCenter VM is absent.
firstErrors(exists) ==
    {"none", "getVcClient", "getVM"} \cup (IF exists THEN {} ELSE Failable)

\* CreateOrUpdateVirtualMachine from its entry to the first blocking point:
\* getVcClient, getVM, and for an absent vCenter VM the sub-steps of
\* createVirtualMachine before vmCreateConcurrentAllowed.
CreateOrUpdateVirtualMachine(v) ==
    /\ pc[v] = "idle"
    /\ granted' = [granted EXCEPT ![v] = FALSE]
    /\ released' = [released EXCEPT ![v] = 0]
    /\ \E failAt \in firstErrors(vcVM[v]) :
          IF failAt \in {"getVcClient", "getVM"}
          THEN /\ trace' = [trace EXCEPT ![v] = PrefixThrough(<<"getVcClient", "getVM">>, failAt)]
               /\ failed' = [failed EXCEPT ![v] = failAt]
               /\ result' = [result EXCEPT ![v] = "err"]
               /\ UNCHANGED <<pc, phase>>
          ELSE IF vcVM[v]
          THEN /\ trace' = [trace EXCEPT ![v] = <<"getVcClient", "getVM">>]
               /\ failed' = [failed EXCEPT ![v] = "none"]
               /\ result' = [result EXCEPT ![v] = "none"]
               /\ pc' = [pc EXCEPT ![v] = "update"]
               /\ UNCHANGED phase
          ELSE /\ trace' = [trace EXCEPT ![v] =
                              <<"getVcClient", "getVM">>
                              \o createEntered(failAt)]
               /\ failed' = [failed EXCEPT ![v] = failAt]
               /\ phase' = [phase EXCEPT ![v] =
                              phaseAfter(@, createEntered(failAt))]
               /\ IF failAt # "none"
                  THEN /\ result' = [result EXCEPT ![v] = "err"]
                       /\ UNCHANGED pc
                  ELSE /\ result' = [result EXCEPT ![v] = "none"]
                       /\ pc' = [pc EXCEPT ![v] = "gateLock"]
    /\ UNCHANGED <<createCountLock, concurrentCreateCount, maxDeployThreads,
                   vcVM, uniqueID>>
    /\ UNCHANGED <<varsOp, varsFn>>

\* vmCreateConcurrentAllowed: createCountLock.Lock().
gateLock(v) ==
    /\ pc[v] = "gateLock"
    /\ createCountLock = 0
    /\ createCountLock' = v
    /\ pc' = [pc EXCEPT ![v] = "gateCheck"]
    /\ trace' = [trace EXCEPT ![v] = Append(@, "gate")]
    /\ UNCHANGED <<concurrentCreateCount, maxDeployThreads, vcVM, phase, uniqueID,
                   failed, result, granted, released>>
    /\ UNCHANGED <<varsOp, varsFn>>

\* Mutant of gateCheck: CreateOrUpdateVirtualMachine lacks the vcVM == nil
\* return after a denial and falls through to updateVirtualMachine.
gateCheck_DeniedFallsThrough(v) ==
    /\ pc[v] = "gateCheck"
    /\ createCountLock = v
    /\ createCountLock' = 0
    /\ IF gateDenied(concurrentCreateCount, maxDeployThreads)
       THEN /\ pc' = [pc EXCEPT ![v] = "update"]
            /\ UNCHANGED <<concurrentCreateCount, granted, result>>
       ELSE /\ concurrentCreateCount' = concurrentCreateCount + 1
            /\ granted' = [granted EXCEPT ![v] = TRUE]
            /\ pc' = [pc EXCEPT ![v] = "create"]
            /\ UNCHANGED result
    /\ UNCHANGED <<maxDeployThreads, vcVM, phase, uniqueID,
                   trace, failed, released>>
    /\ UNCHANGED <<varsOp, varsFn>>

\* Mutant of gateCheck: on a grant the mutex stays locked until decrementFn,
\* so it is held across the create call.
gateCheck_HoldsLockAcrossCreate(v) ==
    /\ pc[v] = "gateCheck"
    /\ createCountLock = v
    /\ IF gateDenied(concurrentCreateCount, maxDeployThreads)
       THEN /\ createCountLock' = 0
            /\ pc' = [pc EXCEPT ![v] = "idle"]
            /\ result' = [result EXCEPT ![v] = "nil"]
            /\ UNCHANGED <<concurrentCreateCount, granted>>
       ELSE /\ createCountLock' = v
            /\ concurrentCreateCount' = concurrentCreateCount + 1
            /\ granted' = [granted EXCEPT ![v] = TRUE]
            /\ pc' = [pc EXCEPT ![v] = "create"]
            /\ UNCHANGED result
    /\ UNCHANGED <<maxDeployThreads, vcVM, phase, uniqueID, trace, failed, released>>
    /\ UNCHANGED <<varsOp, varsFn>>

\* vmCreateConcurrentAllowed under the lock: deny and unlock, or increment
\* and unlock.  A denial makes createVirtualMachine return (nil, nil) and
\* CreateOrUpdateVirtualMachine return nil.
gateCheck(v) ==
    /\ pc[v] = "gateCheck"
    /\ createCountLock = v
    /\ createCountLock' = 0
    /\ IF gateDenied(concurrentCreateCount, maxDeployThreads)
       THEN /\ pc' = [pc EXCEPT ![v] = "idle"]
            /\ result' = [result EXCEPT ![v] = "nil"]
            /\ UNCHANGED <<concurrentCreateCount, granted>>
       ELSE /\ concurrentCreateCount' = concurrentCreateCount + 1
            /\ granted' = [granted EXCEPT ![v] = TRUE]
            /\ pc' = [pc EXCEPT ![v] = "create"]
            /\ UNCHANGED result
    /\ UNCHANGED <<maxDeployThreads, vcVM, phase, uniqueID, trace, failed, released>>
    /\ UNCHANGED <<varsOp, varsFn>>

\* Mutant of CreateVirtualMachine: decrementFn called only on the success
\* path instead of being deferred.
CreateVirtualMachine_NoDeferOnError(v) ==
    /\ pc[v] = "create"
    /\ trace' = [trace EXCEPT ![v] = Append(@, "create")]
    /\ \E ok \in BOOLEAN :
          IF ok
          THEN /\ vcVM' = [vcVM EXCEPT ![v] = TRUE]
               /\ phase' = [phase EXCEPT ![v] = "Created"]
               /\ uniqueID' = [uniqueID EXCEPT ![v] = "vm-moid"]
               /\ pc' = [pc EXCEPT ![v] = "deferLock"]
               /\ UNCHANGED <<failed, result>>
          ELSE /\ failed' = [failed EXCEPT ![v] = "create"]
               /\ result' = [result EXCEPT ![v] = "err"]
               /\ pc' = [pc EXCEPT ![v] = "idle"]
               /\ UNCHANGED <<vcVM, phase, uniqueID>>
    /\ UNCHANGED <<createCountLock, concurrentCreateCount, maxDeployThreads,
                   granted, released>>
    /\ UNCHANGED <<varsOp, varsFn>>

\* ses.CreateVirtualMachine returns; on success the status is set.  The
\* deferred decrementFn then runs on both paths.
CreateVirtualMachine(v) ==
    /\ pc[v] = "create"
    /\ pc' = [pc EXCEPT ![v] = "deferLock"]
    /\ trace' = [trace EXCEPT ![v] = Append(@, "create")]
    /\ \E ok \in BOOLEAN :
          IF ok
          THEN /\ vcVM' = [vcVM EXCEPT ![v] = TRUE]
               /\ phase' = [phase EXCEPT ![v] = "Created"]
               /\ uniqueID' = [uniqueID EXCEPT ![v] = "vm-moid"]
               /\ UNCHANGED failed
          ELSE /\ failed' = [failed EXCEPT ![v] = "create"]
               /\ UNCHANGED <<vcVM, phase, uniqueID>>
    /\ UNCHANGED <<createCountLock, concurrentCreateCount, maxDeployThreads,
                   result, granted, released>>
    /\ UNCHANGED <<varsOp, varsFn>>

\* decrementFn: createCountLock.Lock().
decrementLock(v) ==
    /\ pc[v] = "deferLock"
    /\ createCountLock = 0
    /\ createCountLock' = v
    /\ pc' = [pc EXCEPT ![v] = "deferDec"]
    /\ UNCHANGED <<concurrentCreateCount, maxDeployThreads, vcVM, phase, uniqueID,
                   trace, failed, result, granted, released>>
    /\ UNCHANGED <<varsOp, varsFn>>

\* Mutant of decrementFn: CreateOrUpdateVirtualMachine ignores the error of
\* createVirtualMachine and goes on to updateVirtualMachine.
decrementFn_UpdateAfterCreateError(v) ==
    /\ pc[v] = "deferDec"
    /\ createCountLock = v
    /\ createCountLock' = 0
    /\ concurrentCreateCount' = concurrentCreateCount - 1
    /\ released' = [released EXCEPT ![v] = @ + 1]
    /\ trace' = [trace EXCEPT ![v] = Append(@, "release")]
    /\ pc' = [pc EXCEPT ![v] = "update"]
    /\ UNCHANGED result
    /\ UNCHANGED <<maxDeployThreads, vcVM, phase, uniqueID, failed, granted>>
    /\ UNCHANGED <<varsOp, varsFn>>

\* decrementFn: concurrentCreateCount--, Unlock; createVirtualMachine then
\* returns to CreateOrUpdateVirtualMachine, which returns the create error
\* or goes on to updateVirtualMachine.
decrementFn(v) ==
    /\ pc[v] = "deferDec"
    /\ createCountLock = v
    /\ createCountLock' = 0
    /\ concurrentCreateCount' = concurrentCreateCount - 1
    /\ released' = [released EXCEPT ![v] = @ + 1]
    /\ trace' = [trace EXCEPT ![v] = Append(@, "release")]
    /\ IF failed[v] = "create"
       THEN /\ pc' = [pc EXCEPT ![v] = "idle"]
            /\ result' = [result EXCEPT ![v] = "err"]
       ELSE /\ pc' = [pc EXCEPT ![v] = "update"]
            /\ UNCHANGED result
    /\ UNCHANGED <<maxDeployThreads, vcVM, phase, uniqueID, failed, granted>>
    /\ UNCHANGED <<varsOp, varsFn>>

\* updateVirtualMachine: the reconfigure path returns.
updateVirtualMachine(v) ==
    /\ pc[v] = "update"
    /\ pc' = [pc EXCEPT ![v] = "idle"]
    /\ trace' = [trace EXCEPT ![v] = Append(@, "update")]
    /\ \E ok \in BOOLEAN :
          /\ result' = [result EXCEPT ![v] = IF ok THEN "nil" ELSE "err"]
          /\ failed' = [failed EXCEPT ![v] = IF ok THEN "none" ELSE "update"]
    /\ UNCHANGED <<createCountLock, concurrentCreateCount, maxDeployThreads,
                   vcVM, phase, uniqueID, granted, released>>
    /\ UNCHANGED <<varsOp, varsFn>>

NextVM ==
    \E v \in VMs :
        \/ CreateOrUpdateVirtualMachine(v)
        \/ gateLock(v)
        \/ gateCheck(v)
        \/ CreateVirtualMachine(v)
        \/ decrementLock(v)
        \/ decrementFn(v)
        \/ updateVirtualMachine(v)

SpecVM == InitVM /\ [][NextVM]_vars

\* ------------------------------------------------------------------------
\* Actions of SpecOp: one reconciliation of the Operation at a time, one
\* external call per step
\* ------------------------------------------------------------------------

\* One call in the log: its name, whether it returned success, and the
\* error it returned ("" on success, "error" for an error of the
\* environment that the code does not tell apart).
entry(call, ok, err) == [call |-> call, ok |-> ok, err |-> err]

\* opLog with the outcome of one more call.
logged(call, ok) == Append(opLog, entry(call, ok, IF ok THEN "" ELSE "error"))

\* opLog with one more call that returned the error err.
loggedErr(call, err) == Append(opLog, entry(call, FALSE, err))

\* Names of the calls in a log, and of those that returned success.
callsOf(log) == {log[i].call : i \in 1..Len(log)}

okCallsOf(log) == {log[i].call : i \in {j \in 1..Len(log) : log[j].ok}}

\* Outcomes of a Get of the VirtualMachine object: it can succeed only when
\* the object exists; any error (not found or other) is just an error.
getOutcomes(vm) == IF vm.exists THEN BOOLEAN ELSE {FALSE}

\* Outcomes of the Get of the object named by a reconcile request.
requestOutcomes(exists) == IF exists THEN {"ok", "error"} ELSE {"notFound", "error"}

\* Mutant of IgnoreNotFound: every error of the Get is returned.
IgnoreNotFound_ReturnsError(outcome) == "err"

\* What Reconcile returns after the Get of its object failed:
\* client.IgnoreNotFound(err).
IgnoreNotFound(outcome) == IF outcome = "notFound" THEN "nil" ELSE "err"

\* Reconcile returns res.
finish(res) == opPC' = "idle" /\ opResult' = res

\* Mutant of dispatch: LiveMigration is handled like ColdMigration.
dispatch_LiveAsCold(op) ==
    CASE op.operationType = "Import" /\ op.entityName # "" -> "import_get"
      [] op.operationType = "Import" /\ op.entityName = "" -> "import_entities"
      [] op.operationType = "Export" -> "exp_get"
      [] op.operationType \in {"ColdMigration", "LiveMigration"} -> "cm_get"
      [] OTHER -> "idle"

\* Where Reconcile's switch on Spec.OperationType sends the request.
dispatch(op) ==
    CASE op.operationType = "Import" /\ op.entityName # "" -> "import_get"
      [] op.operationType = "Import" /\ op.entityName = "" -> "import_entities"
      [] op.operationType = "Export" -> "exp_get"
      [] op.operationType = "ColdMigration" -> "cm_get"
      [] OTHER -> "idle"

\* Mutant of Reconcile: the Operation's status phase is set to Running once
\* the object is read.
Reconcile_WritesPhase ==
    /\ opPC = "idle"
    /\ reconciles < MaxReconciles
    /\ reconciles' = reconciles + 1
    /\ opStartVM' = k8sVM
    /\ succeeded' = succeeded \cup okCallsOf(opLog)
    /\ \E outcome \in requestOutcomes(opExists) :
          /\ opLog' = <<entry("Get(Operation)", outcome = "ok",
                              IF outcome = "ok" THEN "" ELSE outcome)>>
          /\ IF outcome = "ok"
             THEN /\ opPC' = dispatch(operation)
                  /\ opResult' = IF dispatch(operation) = "idle" THEN "nil" ELSE "none"
                  /\ operation' = [operation EXCEPT !.phase = "Running"]
             ELSE /\ finish(IgnoreNotFound(outcome))
                  /\ UNCHANGED operation
    /\ UNCHANGED <<opExists, k8sVM, relocated, remote, plan>>
    /\ UNCHANGED <<varsVM, varsFn>>

\* Reconcile: Get of the Operation object, IgnoreNotFound, and the switch.
\* reconcileLiveMigration and the default case return nil at once.
Reconcile ==
    /\ opPC = "idle"
    /\ reconciles < MaxReconciles
    /\ reconciles' = reconciles + 1
    /\ opStartVM' = k8sVM
    /\ succeeded' = succeeded \cup okCallsOf(opLog)
    /\ \E outcome \in requestOutcomes(opExists) :
          /\ opLog' = <<entry("Get(Operation)", outcome = "ok",
                              IF outcome = "ok" THEN "" ELSE outcome)>>
          /\ IF outcome = "ok"
             THEN /\ opPC' = dispatch(operation)
                  /\ opResult' = IF dispatch(operation) = "idle" THEN "nil" ELSE "none"
             ELSE finish(IgnoreNotFound(outcome))
    /\ UNCHANGED <<operation, opExists, k8sVM, relocated, remote, plan>>
    /\ UNCHANGED <<varsVM, varsFn>>

\* The external actor deletes the Operation object between reconciliations.
DeleteOperation ==
    /\ opPC = "idle"
    /\ opExists
    /\ opExists' = FALSE
    /\ UNCHANGED <<operation, k8sVM, relocated, remote, opPC, opLog, opResult,
                   opStartVM, succeeded, reconciles, plan>>
    /\ UNCHANGED <<varsVM, varsFn>>

\* Mutant of reconcileColdMigration_Get: the error of the Get is logged and
\* the migration goes on.
reconcileColdMigration_Get_IgnoreError ==
    /\ opPC = "cm_get"
    /\ \E ok \in getOutcomes(k8sVM) :
          /\ opLog' = logged("reconcileColdMigration.Get", ok)
          /\ opPC' = "cm_conn"
          /\ UNCHANGED opResult
    /\ UNCHANGED <<operation, opExists, k8sVM, relocated, remote, opStartVM,
                   succeeded, reconciles, plan>>
    /\ UNCHANGED <<varsVM, varsFn>>

\* reconcileColdMigration, step 1: Get of the source VirtualMachine.
reconcileColdMigration_Get ==
    /\ opPC = "cm_get"
    /\ \E ok \in getOutcomes(k8sVM) :
          /\ opLog' = logged("reconcileColdMigration.Get", ok)
          /\ IF ok THEN opPC' = "cm_conn" /\ UNCHANGED opResult ELSE finish("err")
    /\ UNCHANGED <<operation, opExists, k8sVM, relocated, remote, opStartVM,
                   succeeded, reconciles, plan>>
    /\ UNCHANGED <<varsVM, varsFn>>

\* Mutant of testTargetClusterConnection: its error is ignored and exportVM
\* runs.
testTargetClusterConnection_IgnoreError ==
    /\ opPC = "cm_conn"
    /\ \E outcome \in {"ok", "createClientsFromConfig", "ServerVersion"} :
          /\ opLog' = logged("testTargetClusterConnection", outcome = "ok")
          /\ opPC' = "exp_get"
          /\ UNCHANGED opResult
    /\ UNCHANGED <<operation, opExists, k8sVM, relocated, remote, opStartVM,
                   succeeded, reconciles, plan>>
    /\ UNCHANGED <<varsVM, varsFn>>

\* reconcileColdMigration, step 2: testTargetClusterConnection builds the
\* remote client (createClientsFromConfig) and queries the server version.
testTargetClusterConnection ==
    /\ opPC = "cm_conn"
    /\ \E outcome \in {"ok", "createClientsFromConfig", "ServerVersion"} :
          /\ opLog' = logged("testTargetClusterConnection", outcome = "ok")
          /\ IF outcome = "ok" THEN opPC' = "exp_get" /\ UNCHANGED opResult
                               ELSE finish("err")
    /\ UNCHANGED <<operation, opExists, k8sVM, relocated, remote, opStartVM,
                   succeeded, reconciles, plan>>
    /\ UNCHANGED <<varsVM, varsFn>>

\* Mutant of exportVM_Get: a VirtualMachine that cannot be read counts as
\* already exported and the reconciliation returns nil.
exportVM_Get_MissingIsDone ==
    /\ opPC = "exp_get"
    /\ \E ok \in getOutcomes(k8sVM) :
          /\ opLog' = logged("exportVM.Get", ok)
          /\ IF ok THEN opPC' = "exp_update" /\ UNCHANGED opResult ELSE finish("nil")
    /\ UNCHANGED <<operation, opExists, k8sVM, relocated, remote, opStartVM,
                   succeeded, reconciles, plan>>
    /\ UNCHANGED <<varsVM, varsFn>>

\* exportVM: Get of the VirtualMachine.
exportVM_Get ==
    /\ opPC = "exp_get"
    /\ \E ok \in getOutcomes(k8sVM) :
          /\ opLog' = logged("exportVM.Get", ok)
          /\ IF ok THEN opPC' = "exp_update" /\ UNCHANGED opResult ELSE finish("err")
    /\ UNCHANGED <<operation, opExists, k8sVM, relocated, remote, opStartVM,
                   succeeded, reconciles, plan>>
    /\ UNCHANGED <<varsVM, varsFn>>

\* Mutant of exportVM_Update: the error of Update is logged and ignored.
exportVM_Update_IgnoreError ==
    /\ opPC = "exp_update"
    /\ \E ok \in BOOLEAN :
          /\ opLog' = logged("exportVM.Update", ok)
          /\ k8sVM' = IF ok THEN [k8sVM EXCEPT !.exported = TRUE] ELSE k8sVM
          /\ opPC' = "exp_delete"
          /\ UNCHANGED opResult
    /\ UNCHANGED <<operation, opExists, relocated, remote, opStartVM, succeeded, reconciles, plan>>
    /\ UNCHANGED <<varsVM, varsFn>>

\* exportVM: the export annotation is set on the object and Update is
\* called; an error returns before Delete.
exportVM_Update ==
    /\ opPC = "exp_update"
    /\ \E ok \in BOOLEAN :
          /\ opLog' = logged("exportVM.Update", ok)
          /\ IF ok
             THEN /\ k8sVM' = [k8sVM EXCEPT !.exported = TRUE]
                  /\ opPC' = "exp_delete"
                  /\ UNCHANGED opResult
             ELSE /\ finish("err")
                  /\ UNCHANGED k8sVM
    /\ UNCHANGED <<operation, opExists, relocated, remote, opStartVM, succeeded, reconciles, plan>>
    /\ UNCHANGED <<varsVM, varsFn>>

\* exportVM: Delete of the VirtualMachine; reconcileExport then returns nil
\* and reconcileColdMigration goes on to RelocateVirtualMachine.
exportVM_Delete ==
    /\ opPC = "exp_delete"
    /\ \E ok \in BOOLEAN :
          /\ opLog' = logged("exportVM.Delete", ok)
          /\ IF ok
             THEN /\ k8sVM' = [k8sVM EXCEPT !.exists = FALSE]
                  /\ IF operation.operationType = "ColdMigration"
                     THEN opPC' = "relocate" /\ UNCHANGED opResult
                     ELSE finish("nil")
             ELSE /\ finish("err")
                  /\ UNCHANGED k8sVM
    /\ UNCHANGED <<operation, opExists, relocated, remote, opStartVM, succeeded, reconciles, plan>>
    /\ UNCHANGED <<varsVM, varsFn>>

\* What RelocateVirtualMachine can do: fail in getVcClient or getVM, return
\* nil for an absent vCenter VM, fail to resolve the destination host,
\* resource pool, datastore or network, find no vmxnet3 device, fail to
\* resolve the folder, or start the relocate task, which fails or succeeds.
RelocateOutcomes ==
    {"getVcClient", "getVM", "absent", "host", "pool", "datastore", "network",
     "nic", "folder", "taskFailed", "relocated"}

\* Mutant of RelocateVirtualMachine: its error is ignored and importVM runs.
RelocateVirtualMachine_ContinueOnError ==
    /\ opPC = "relocate"
    /\ \E outcome \in RelocateOutcomes :
          /\ opLog' = logged("RelocateVirtualMachine", outcome \in {"absent", "relocated"})
          /\ relocated' = (relocated \/ outcome = "relocated")
          /\ opPC' = "imp_vm"
          /\ UNCHANGED opResult
    /\ UNCHANGED <<operation, opExists, k8sVM, remote, opStartVM, succeeded, reconciles, plan>>
    /\ UNCHANGED <<varsVM, varsFn>>

\* Mutant of RelocateVirtualMachine: when no vCenter VM is found the
\* reconciliation returns nil at once, without importVM.
RelocateVirtualMachine_AbsentStops ==
    /\ opPC = "relocate"
    /\ \E outcome \in RelocateOutcomes :
          /\ opLog' = logged("RelocateVirtualMachine", outcome \in {"absent", "relocated"})
          /\ relocated' = (relocated \/ outcome = "relocated")
          /\ IF outcome = "relocated"
             THEN opPC' = "imp_vm" /\ UNCHANGED opResult
             ELSE finish(IF outcome = "absent" THEN "nil" ELSE "err")
    /\ UNCHANGED <<operation, opExists, k8sVM, remote, opStartVM, succeeded, reconciles, plan>>
    /\ UNCHANGED <<varsVM, varsFn>>

\* reconcileColdMigration, step 4: VMProvider.RelocateVirtualMachine.
RelocateVirtualMachine ==
    /\ opPC = "relocate"
    /\ \E outcome \in RelocateOutcomes :
          /\ opLog' = logged("RelocateVirtualMachine", outcome \in {"absent", "relocated"})
          /\ relocated' = (relocated \/ outcome = "relocated")
          /\ IF outcome \in {"absent", "relocated"}
             THEN opPC' = "imp_vm" /\ UNCHANGED opResult
             ELSE finish("err")
    /\ UNCHANGED <<operation, opExists, k8sVM, remote, opStartVM, succeeded, reconciles, plan>>
    /\ UNCHANGED <<varsVM, varsFn>>

\* importVM up to the remote Create calls: createClientsFromConfig, Get of
\* the SupervisorLocation, and the build of the Operation object, which
\* indexes Spec.VmSpec.NetworkInterfaces[0].
importVM_Build ==
    /\ opPC = "imp_vm"
    /\ \E outcome \in {"ok", "createClientsFromConfig", "Get(SupervisorLocation)"} :
          IF outcome # "ok"
          THEN /\ opLog' = logged("importVM", FALSE)
               /\ finish("err")
          ELSE IF operation.nics = 0
          THEN /\ opLog' = logged("importVM", FALSE)
               /\ finish("panic")
          ELSE /\ opLog' = logged("importVM", TRUE)
               /\ opPC' = "imp_vm_op"
               /\ UNCHANGED opResult
    /\ UNCHANGED <<operation, opExists, k8sVM, relocated, remote, opStartVM,
                   succeeded, reconciles, plan>>
    /\ UNCHANGED <<varsVM, varsFn>>

\* Mutant of importVM_CreateOperation: an Operation "import" that already
\* exists on the destination counts as created.
importVM_CreateOperation_ExistingIsFine ==
    /\ opPC = "imp_vm_op"
    /\ \E ok \in (IF remote.operation THEN {TRUE} ELSE BOOLEAN) :
          /\ opLog' = logged("importVM.Create(Operation)", ok)
          /\ IF ok
             THEN /\ remote' = [remote EXCEPT !.operation = TRUE]
                  /\ opPC' = "imp_vm_plan"
                  /\ UNCHANGED opResult
             ELSE /\ finish("err")
                  /\ UNCHANGED remote
    /\ UNCHANGED <<operation, opExists, k8sVM, relocated, opStartVM, succeeded, reconciles, plan>>
    /\ UNCHANGED <<varsVM, varsFn>>

\* importVM: Create of the Operation "import" on the destination.
importVM_CreateOperation ==
    /\ opPC = "imp_vm_op"
    /\ \E ok \in (IF remote.operation THEN {FALSE} ELSE BOOLEAN) :
          /\ opLog' = logged("importVM.Create(Operation)", ok)
          /\ IF ok
             THEN /\ remote' = [remote EXCEPT !.operation = TRUE]
                  /\ opPC' = "imp_vm_plan"
                  /\ UNCHANGED opResult
             ELSE /\ finish("err")
                  /\ UNCHANGED remote
    /\ UNCHANGED <<operation, opExists, k8sVM, relocated, opStartVM, succeeded, reconciles, plan>>
    /\ UNCHANGED <<varsVM, varsFn>>

\* importVM: Create of the Plan "importvm-plan" on the destination.
importVM_CreatePlan ==
    /\ opPC = "imp_vm_plan"
    /\ \E ok \in (IF remote.plan THEN {FALSE} ELSE BOOLEAN) :
          /\ opLog' = logged("importVM.Create(Plan)", ok)
          /\ IF ok
             THEN /\ remote' = [remote EXCEPT !.plan = TRUE]
                  /\ finish("nil")
             ELSE /\ finish("err")
                  /\ UNCHANGED remote
    /\ UNCHANGED <<operation, opExists, k8sVM, relocated, opStartVM, succeeded, reconciles, plan>>
    /\ UNCHANGED <<varsVM, varsFn>>

\* reconcileImportWithVMSpec: Get of the VirtualMachine named by
\* Spec.EntityName; found returns nil, any error goes on to Create.
reconcileImportWithVMSpec_Get ==
    /\ opPC = "import_get"
    /\ \E found \in getOutcomes(k8sVM) :
          /\ opLog' = logged("reconcileImportWithVMSpec.Get", found)
          /\ IF found THEN finish("nil") ELSE opPC' = "import_create" /\ UNCHANGED opResult
    /\ UNCHANGED <<operation, opExists, k8sVM, relocated, remote, opStartVM,
                   succeeded, reconciles, plan>>
    /\ UNCHANGED <<varsVM, varsFn>>

\* reconcileImportWithVMSpec: Create of a VirtualMachine with the embedded
\* spec; the API server refuses it when the object already exists.
reconcileImportWithVMSpec_Create ==
    /\ opPC = "import_create"
    /\ \E ok \in (IF k8sVM.exists THEN {FALSE} ELSE BOOLEAN) :
          /\ opLog' = logged("reconcileImportWithVMSpec.Create", ok)
          /\ IF ok
             THEN /\ k8sVM' = [exists |-> TRUE, exported |-> FALSE, spec |-> operation.vmSpec]
                  /\ finish("nil")
             ELSE /\ finish("err")
                  /\ UNCHANGED k8sVM
    /\ UNCHANGED <<operation, opExists, relocated, remote, opStartVM, succeeded, reconciles, plan>>
    /\ UNCHANGED <<varsVM, varsFn>>

\* Mutant of resolveEntitiesBySelector: a name pattern is resolved like a
\* resource pool name.
resolveEntitiesBySelector_PatternResolved(sel) ==
    CASE sel.resourcePool # "" -> "GetVsphereVMsByResPoolName"
      [] sel.nameRegexPattern # "" -> "GetVsphereVMsByResPoolName"
      [] sel.selector -> "unsupported entity selector Selector"
      [] OTHER -> "unsupported entity selector"

\* resolveEntitiesBySelector's switch: the provider call that resolves the
\* entities, or the error returned without any call.
resolveEntitiesBySelector(sel) ==
    CASE sel.resourcePool # "" -> "GetVsphereVMsByResPoolName"
      [] sel.nameRegexPattern # "" -> "unsupported entity selector NameRegexPattern"
      [] sel.selector -> "unsupported entity selector Selector"
      [] OTHER -> "unsupported entity selector"

\* resolveEntities: only an EntitySelector is supported.
resolveEntities(sel) ==
    IF sel.present THEN resolveEntitiesBySelector(sel)
                   ELSE "unsupported entity reference"

\* The VMs GetVsphereVMsByResPoolName can find in the resource pool.
PoolVMs == {<<>>, <<"vm-a">>, <<"vm-a", "vm-b">>}

\* The EntityReference built for a VM found in the resource pool.
EntityReference(vm) == "EntityReference " \o vm

\* resolveEntitiesBySelector, lines 79-87: one EntityReference per VM found,
\* in order, as log entries.
entityRefs(vms) == [i \in 1..Len(vms) |-> entry(EntityReference(vms[i]), TRUE, "")]

\* reconcileImportWithEntities: resolveEntities, which calls the provider's
\* GetVsphereVMsByResPoolName for a resource pool name, builds an
\* EntityReference for each VM found and otherwise returns an error; then
\* importEntitiesToSupervisorLocation, which only looks up the destination
\* folder.
reconcileImportWithEntities ==
    /\ opPC = "import_entities"
    /\ IF resolveEntities(operation.selector) # "GetVsphereVMsByResPoolName"
       THEN /\ opLog' = loggedErr("resolveEntities", resolveEntities(operation.selector))
            /\ finish("err")
       ELSE \E outcome \in {"ok", "GetVsphereVMsByResPoolName",
                            "GetFolderNameBySupervisorNamespaceName"},
               vms \in PoolVMs :
               /\ opLog' =
                     IF outcome = "GetVsphereVMsByResPoolName"
                     THEN logged("GetVsphereVMsByResPoolName", FALSE)
                     ELSE logged("GetVsphereVMsByResPoolName", TRUE)
                          \o entityRefs(vms)
                          \o <<entry("GetFolderNameBySupervisorNamespaceName",
                                     outcome = "ok",
                                     IF outcome = "ok" THEN "" ELSE "error")>>
               /\ finish(IF outcome = "ok" THEN "nil" ELSE "err")
    /\ UNCHANGED <<operation, opExists, k8sVM, relocated, remote, opStartVM,
                   succeeded, reconciles, plan>>
    /\ UNCHANGED <<varsVM, varsFn>>

\* Reconcile of the Plan controller: Get of the Plan, IgnoreNotFound, log.
PlanReconcile ==
    /\ \E outcome \in requestOutcomes(plan.exists) :
          plan' = [plan EXCEPT !.get = outcome,
                               !.result = IF outcome = "ok" THEN "nil"
                                          ELSE IgnoreNotFound(outcome)]
    /\ UNCHANGED <<operation, opExists, k8sVM, relocated, remote, opPC, opLog,
                   opResult, opStartVM, succeeded, reconciles>>
    /\ UNCHANGED <<varsVM, varsFn>>

\* The external actor deletes the Plan object.
DeletePlan ==
    /\ plan.exists
    /\ plan' = [plan EXCEPT !.exists = FALSE]
    /\ UNCHANGED <<operation, opExists, k8sVM, relocated, remote, opPC, opLog,
                   opResult, opStartVM, succeeded, reconciles>>
    /\ UNCHANGED <<varsVM, varsFn>>

NextOp ==
    \/ Reconcile
    \/ DeleteOperation
    \/ reconcileColdMigration_Get
    \/ testTargetClusterConnection
    \/ exportVM_Get
    \/ exportVM_Update
    \/ exportVM_Delete
    \/ RelocateVirtualMachine
    \/ importVM_Build
    \/ importVM_CreateOperation
    \/ importVM_CreatePlan
    \/ reconcileImportWithVMSpec_Get
    \/ reconcileImportWithVMSpec_Create
    \/ reconcileImportWithEntities
    \/ PlanReconcile
    \/ DeletePlan

\* What the destination namespace of an Operation holds before its first
\* reconciliation: nothing, or, for a cold migration, what an earlier cold
\* migration to the same namespace left there: the Operation "import", with
\* or without the Plan "importvm-plan".
RemoteStates(op) ==
    IF op.operationType = "ColdMigration"
    THEN {[operation |-> FALSE, plan |-> FALSE], [operation |-> TRUE, plan |-> FALSE],
          [operation |-> TRUE, plan |-> TRUE]}
    ELSE {[operation |-> FALSE, plan |-> FALSE]}

\* An Operation object created by the external actor, the VirtualMachine it
\* names present or absent, nothing reconciled yet.
InitOp ==
    /\ VMQuiescent
    /\ FnQuiescent
    /\ operation \in Operations
    /\ opExists = TRUE
    /\ k8sVM \in VMObjects
    /\ relocated = FALSE
    /\ remote \in RemoteStates(operation)
    /\ opPC = "idle"
    /\ opLog = <<>>
    /\ opResult = "none"
    /\ opStartVM = k8sVM
    /\ succeeded = {}
    /\ reconciles = 0
    /\ plan = [NoPlan EXCEPT !.exists = TRUE]

SpecOp == InitOp /\ [][NextOp]_vars

\* ------------------------------------------------------------------------
\* SpecBind: vmCreateGetFolderAndRPMoIDs on its own
\* ------------------------------------------------------------------------

\* What can be found under a parent by name: nothing, an object of the kind
\* looked for, or an object of another kind.
ChildStates == {"absent", "match", "otherKind"}

Inventories == [childRP : ChildStates, childFolder : ChildStates]

\* The lookups whose call to vCenter or the API server can itself fail.
BindLookups ==
    {"GetNamespaceFolderAndRPMoID", "GetNamespaceFolderMoID", "findChildRP",
     "GetChildFolder"}

\* A lookup result: the MoID found ("" when none) and the error ("" when
\* none).
found(moid) == [moid |-> moid, err |-> ""]

failedWith(err) == [moid |-> "", err |-> err]

\* findChildRP: FindChild fails, finds nothing (nil, nil), finds an object
\* that is not a ResourcePool (error), or finds the child pool.
findChildRP(inv, broken) ==
    IF broken = "findChildRP" THEN failedWith("FindChild failed")
    ELSE IF inv.childRP = "absent" THEN found("")
    ELSE IF inv.childRP = "otherKind" THEN failedWith("child is not a ResourcePool")
    ELSE found("child-rp")

\* Mutant of GetChildResourcePool: a child that is not found is reported as
\* found with the parent's MoID instead of an error.
GetChildResourcePool_MissingIsParent(inv, broken) ==
    IF findChildRP(inv, broken).err # "" THEN findChildRP(inv, broken)
    ELSE IF findChildRP(inv, broken).moid = "" THEN found("root-rp")
    ELSE findChildRP(inv, broken)

\* GetChildResourcePool: findChildRP, and an error when nothing was found.
GetChildResourcePool(inv, broken) ==
    IF findChildRP(inv, broken).err # "" THEN findChildRP(inv, broken)
    ELSE IF findChildRP(inv, broken).moid = "" THEN failedWith("child ResourcePool not found")
    ELSE findChildRP(inv, broken)

\* GetChildFolder, the counterpart of GetChildResourcePool for folders.
GetChildFolder(inv, broken) ==
    IF broken = "GetChildFolder" THEN failedWith("FindChild of Folder failed")
    ELSE IF inv.childFolder = "absent" THEN failedWith("child Folder not found")
    ELSE IF inv.childFolder = "otherKind" THEN failedWith("child is not a Folder")
    ELSE found("child-folder")

\* The result of one part of the resolver: createArgs as left by it, the
\* lookups made, the error returned.
bindOut(args, log, err) == [args |-> args, log |-> log, err |-> err]

\* Mutant of resolvePool: the namespace/zone pool and the child pool are
\* looked up although placement already selected a pool.
resolvePool_AlwaysLooksUp(args, zone, inv, broken) ==
    IF broken = "GetNamespaceFolderAndRPMoID"
    THEN bindOut(args, <<"GetNamespaceFolderAndRPMoID:" \o zone>>, "lookup failed")
    ELSE IF args.ChildResourcePoolName # ""
    THEN IF GetChildResourcePool(inv, broken).err # ""
         THEN bindOut(args, <<"GetNamespaceFolderAndRPMoID:" \o zone, "GetChildResourcePool">>,
                      GetChildResourcePool(inv, broken).err)
         ELSE bindOut([args EXCEPT !.ResourcePoolMoID = GetChildResourcePool(inv, broken).moid,
                                   !.FolderMoID = "ns-folder"],
                      <<"GetNamespaceFolderAndRPMoID:" \o zone, "GetChildResourcePool">>, "")
    ELSE bindOut([args EXCEPT !.ResourcePoolMoID = "root-rp", !.FolderMoID = "ns-folder"],
                 <<"GetNamespaceFolderAndRPMoID:" \o zone>>, "")

\* vmCreateGetFolderAndRPMoIDs, lines 516-550: without a pool from
\* placement, the namespace/zone root pool and folder are looked up with the
\* VM's zone label and a child pool named by the policy replaces the root
\* pool; with a pool from placement only the namespace folder is looked up.
\* createArgs is assigned only when no lookup failed.
resolvePool(args, zone, inv, broken) ==
    IF args.ResourcePoolMoID = ""
    THEN IF broken = "GetNamespaceFolderAndRPMoID"
         THEN bindOut(args, <<"GetNamespaceFolderAndRPMoID:" \o zone>>, "lookup failed")
         ELSE IF args.ChildResourcePoolName # ""
         THEN IF GetChildResourcePool(inv, broken).err # ""
              THEN bindOut(args,
                           <<"GetNamespaceFolderAndRPMoID:" \o zone, "GetChildResourcePool">>,
                           GetChildResourcePool(inv, broken).err)
              ELSE bindOut([args EXCEPT
                              !.ResourcePoolMoID = GetChildResourcePool(inv, broken).moid,
                              !.FolderMoID = "ns-folder"],
                           <<"GetNamespaceFolderAndRPMoID:" \o zone, "GetChildResourcePool">>,
                           "")
         ELSE bindOut([args EXCEPT !.ResourcePoolMoID = "root-rp", !.FolderMoID = "ns-folder"],
                      <<"GetNamespaceFolderAndRPMoID:" \o zone>>, "")
    ELSE IF broken = "GetNamespaceFolderMoID"
         THEN bindOut(args, <<"GetNamespaceFolderMoID">>, "lookup failed")
         ELSE bindOut([args EXCEPT !.FolderMoID = "ns-folder"],
                      <<"GetNamespaceFolderMoID">>, "")

\* vmCreateGetFolderAndRPMoIDs, lines 552-566: after the pool part
\* succeeded, a child folder named by the policy is looked up under the
\* namespace folder and replaces it.
resolveFolder(out, inv, broken) ==
    IF out.err # "" \/ out.args.ChildFolderName = "" THEN out
    ELSE IF GetChildFolder(inv, broken).err # ""
    THEN bindOut(out.args, Append(out.log, "GetChildFolder"), GetChildFolder(inv, broken).err)
    ELSE bindOut([out.args EXCEPT !.FolderMoID = GetChildFolder(inv, broken).moid],
                 Append(out.log, "GetChildFolder"), "")

\* createVirtualMachine, lines 375-380: vmCreateGetFolderAndRPMoIDs is
\* called once; its error is returned, otherwise vmCreateIsReady is next.
\* Nothing in it writes to vCenter.
vmCreateGetFolderAndRPMoIDs ==
    /\ bindErr = "pending"
    /\ \E broken \in {"none"} \cup BindLookups :
          LET out == resolveFolder(resolvePool(createArgs, zoneLabel, inventory, broken),
                                   inventory, broken)
          IN /\ createArgs' = out.args
             /\ bindLog' = out.log
             /\ bindErr' = IF out.err = "" THEN "nil" ELSE out.err
             /\ bindNext' = IF out.err = "" THEN "vmCreateIsReady" ELSE "return err"
    /\ UNCHANGED <<inventory, zoneLabel>>
    /\ UNCHANGED <<varsVM, varsOp, varsGen, varsDisk, varsCr, varsCall, varsPool>>

NextBind == vmCreateGetFolderAndRPMoIDs

\* createArgs as vmCreateGetArgs and vmCreateDoPlacement leave it, any
\* inventory, the zone label set or not.
InitBind ==
    /\ VMQuiescent
    /\ OpQuiescent
    /\ inventory \in Inventories
    /\ createArgs \in [ResourcePoolMoID : {"", "placed-rp"}, FolderMoID : {""},
                       ChildResourcePoolName : {"", "child-rp"},
                       ChildFolderName : {"", "child-folder"}]
    /\ zoneLabel \in {"", "zone-a"}
    /\ bindLog = <<>>
    /\ bindErr = "pending"
    /\ bindNext = "none"
    /\ GenQuiescent
    /\ DiskQuiescent
    /\ CrQuiescent
    /\ CallQuiescent
    /\ PoolQuiescent

SpecBind == InitBind /\ [][NextBind]_vars

\* ------------------------------------------------------------------------
\* SpecGen: the ConfigSpec builders on their own
\* ------------------------------------------------------------------------

\* Kinds of virtual device in a ConfigSpec's DeviceChange.
DeviceKinds == {"eth", "disk", "pci"}

DeviceLists == {<<>>, <<"eth">>, <<"disk">>, <<"eth", "disk">>, <<"pci", "eth">>}

ClassConfigSpecs ==
    [present : {TRUE}, Version : {"", "vmx-14"}, DeviceChange : DeviceLists]

IsEthernetCard(dev) == dev = "eth"

\* The kinds of device that util.IsEthernetCard selects.
EthernetCards == {dev \in DeviceKinds : IsEthernetCard(dev)}

\* RemoveDevicesFromConfigSpec: the ConfigSpec without the devices of the
\* selected kinds.
RemoveDevicesFromConfigSpec(cs, selected) ==
    [cs EXCEPT !.DeviceChange = SelectSeq(@, LAMBDA dev : dev \notin selected)]

\* CreateConfigSpec: name, CPU count and reservation from the class and the
\* minimum frequency, the firmware hint, layered over the class-level
\* ConfigSpec when there is one.
CreateConfigSpec(name, classSpec, minFreq, firmware, classConfigSpec) ==
    [Name |-> name,
     NumCPUs |-> classSpec.cpus,
     CpuReservation |-> classSpec.cpus * minFreq,
     Firmware |-> firmware,
     Version |-> IF classConfigSpec.present THEN classConfigSpec.Version ELSE "",
     DeviceChange |-> IF classConfigSpec.present THEN classConfigSpec.DeviceChange ELSE <<>>]

\* CreateConfigSpecForPlacement: the ConfigSpec with the network interface
\* devices stripped.
CreateConfigSpecForPlacement(name, classSpec, minFreq, firmware, classConfigSpec) ==
    RemoveDevicesFromConfigSpec(
        CreateConfigSpec(name, classSpec, minFreq, firmware, classConfigSpec),
        EthernetCards)

\* Least hardware versions for pass-through devices and for PVCs.
MinPCIVersion == 17

MinPVCVersion == 15

\* HardwareVersionForPVCandPCIDevices: the hardware-version floor when
\* pass-through devices or PVCs are present, 0 when neither is.
HardwareVersionForPVCandPCIDevices(imageHWVersion, configSpec, hasPVC) ==
    LET floor == IF "pci" \in Range(configSpec.DeviceChange) THEN MinPCIVersion
                 ELSE IF hasPVC THEN MinPVCVersion
                 ELSE 0
    IN IF floor = 0 THEN 0
       ELSE IF imageHWVersion > floor THEN imageHWVersion
       ELSE floor

\* fmt.Sprintf("vmx-%d", version)
vmxVersion(version) == "vmx-" \o ToString(version)

\* vmCreateGenConfigSpec, lines 768-790: both ConfigSpecs from the inputs and
\* the class-level ConfigSpec prepared for them, then the hardware version
\* when the class-level one left it empty.
genConfigSpecs(args, vmClassConfigSpec) ==
    LET ConfigSpec == CreateConfigSpec(args.Name, args.VMClassSpec, args.MinCPUFreq,
                                       args.Firmware, vmClassConfigSpec)
        version == HardwareVersionForPVCandPCIDevices(args.ImageHardwareVersion,
                                                      ConfigSpec, args.HasPVC)
    IN [ConfigSpec |->
           IF args.FSS /\ ConfigSpec.Version = "" /\ version # 0
           THEN [ConfigSpec EXCEPT !.Version = vmxVersion(version)]
           ELSE ConfigSpec,
        PlacementConfigSpec |->
           CreateConfigSpecForPlacement(args.Name, args.VMClassSpec, args.MinCPUFreq,
                                        args.Firmware, vmClassConfigSpec)]

\* Mutant of vmCreateGenConfigSpec: the ethernet cards are removed from
\* createArgs.ClassConfigSpec itself instead of from a copy.
vmCreateGenConfigSpec_StripsInPlace ==
    /\ Len(genOut) < MaxGen
    /\ LET stripped ==
              IF genArgs.ClassConfigSpec.present /\ genArgs.FSS
              THEN RemoveDevicesFromConfigSpec(genArgs.ClassConfigSpec, EthernetCards)
              ELSE genArgs.ClassConfigSpec
           vmClassConfigSpec ==
              IF genArgs.ClassConfigSpec.present /\ genArgs.FSS THEN stripped
              ELSE NoClassConfigSpec
       IN /\ genOut' = Append(genOut, genConfigSpecs(genArgs, vmClassConfigSpec))
          /\ genArgs' = [genArgs EXCEPT !.ClassConfigSpec = stripped]
    /\ UNCHANGED updOut
    /\ UNCHANGED <<varsVM, varsOp, varsBind, varsDisk, varsCr, varsCall, varsPool>>

\* vmCreateGenConfigSpec, lines 750-791: with a class-level ConfigSpec and
\* the feature switch on, t is a copy of it, the ethernet cards are removed
\* from t and t is what the builders get; otherwise they get nil.
\* createArgs.ClassConfigSpec is only read.
vmCreateGenConfigSpec ==
    /\ Len(genOut) < MaxGen
    /\ LET t == genArgs.ClassConfigSpec
           vmClassConfigSpec ==
              IF genArgs.ClassConfigSpec.present /\ genArgs.FSS
              THEN RemoveDevicesFromConfigSpec(t, EthernetCards)
              ELSE NoClassConfigSpec
       IN genOut' = Append(genOut, genConfigSpecs(genArgs, vmClassConfigSpec))
    /\ UNCHANGED <<genArgs, updOut>>
    /\ UNCHANGED <<varsVM, varsOp, varsBind, varsDisk, varsCr, varsCall, varsPool>>

\* Mutant of isVMFirstBoot: every update is taken for the first boot.
isVMFirstBoot_Always(args) == TRUE

\* isVMFirstBoot, lines 922-928: the VM lacks the FirstBootDoneAnnotation.
isVMFirstBoot(args) == ~args.FirstBootDone

\* What vmUpdateGetArgs returns: the error ("" when none), the ConfigSpec and
\* whether the global extra config was rendered into updateArgs, with the
\* calls it made after the class-level ConfigSpec was resolved.
updated(err, configSpec, extraConfig, log) ==
    [err |-> err, ConfigSpec |-> configSpec, ExtraConfig |-> extraConfig, log |-> log]

\* The ConfigSpec of a nil *vmUpdateArgs.
NoConfigSpec == CreateConfigSpec("", [cpus |-> 0], 0, "", NoClassConfigSpec)

\* vmUpdateGetArgs, lines 874-919: only on the VM's first boot the image is
\* fetched (an error of the fetch is returned), its firmware is used and the
\* global extra config is rendered from it; the ConfigSpec is built from
\* the class-level ConfigSpec as it is.
vmUpdateGetArgs ==
    /\ Len(updOut) < MaxGen
    /\ updOut' =
          Append(updOut,
                 IF isVMFirstBoot(genArgs)
                 THEN IF genArgs.ImageFetch = "err"
                      THEN updated("GetVMImageAndContentLibraryUUID failed", NoConfigSpec,
                                   "unset", <<"GetVMImageAndContentLibraryUUID">>)
                      ELSE updated("",
                                   CreateConfigSpec(genArgs.Name, genArgs.VMClassSpec,
                                                    genArgs.MinCPUFreq, genArgs.Firmware,
                                                    genArgs.ClassConfigSpec),
                                   "rendered",
                                   <<"GetVMImageAndContentLibraryUUID", "CreateConfigSpec">>)
                 ELSE updated("",
                              CreateConfigSpec(genArgs.Name, genArgs.VMClassSpec,
                                               genArgs.MinCPUFreq, "",
                                               genArgs.ClassConfigSpec),
                              "unset", <<"CreateConfigSpec">>))
    /\ UNCHANGED <<genArgs, genOut>>
    /\ UNCHANGED <<varsVM, varsOp, varsBind, varsDisk, varsCr, varsCall, varsPool>>

NextGen == vmCreateGenConfigSpec \/ vmUpdateGetArgs

\* Any inputs as vmCreateGetArgs / vmUpdateGetArgs leave them: the class-level
\* ConfigSpec is set only with the feature switch on (lines 713-721, 865-873);
\* the VM has the FirstBootDoneAnnotation or not, and the image can be
\* fetched or not.
InitGen ==
    /\ VMQuiescent
    /\ OpQuiescent
    /\ BindQuiescent
    /\ DiskQuiescent
    /\ CrQuiescent
    /\ CallQuiescent
    /\ PoolQuiescent
    /\ genArgs \in [Name : {"vm-1"}, VMClassSpec : [cpus : {1, 2}], MinCPUFreq : {0, 2},
                    Firmware : {"", "efi"}, ImageHardwareVersion : {0, 13, 19},
                    HasPVC : BOOLEAN, FSS : BOOLEAN, FirstBootDone : BOOLEAN,
                    ImageFetch : {"ok", "err"},
                    ClassConfigSpec : {NoClassConfigSpec} \cup ClassConfigSpecs]
    /\ genArgs.ClassConfigSpec.present => genArgs.FSS
    /\ genOut = <<>>
    /\ updOut = <<>>

SpecGen == InitGen /\ [][NextGen]_vars

\* ------------------------------------------------------------------------
\* SpecDisk: the disk resize of the update path on its own
\* ------------------------------------------------------------------------

\* The result of resizing one disk: the validation error ("" when none) and
\* the device changes emitted for it.
resized(err, changes) == [err |-> err, changes |-> changes]

edit(d, capacity) == [operation |-> "edit", key |-> d, capacity |-> capacity]

\* Mutant of resizeDisk: a requested capacity smaller than the current one is
\* ignored.
resizeDisk_IgnoresShrink(d, current, requested) ==
    IF requested > current THEN resized("", <<edit(d, requested)>>)
    ELSE resized("", <<>>)

\* Resize of one disk: a requested capacity smaller than the current one is
\* a validation error; a device edit is emitted only when the requested
\* capacity strictly exceeds the current one.
resizeDisk(d, current, requested) ==
    IF requested < current THEN resized("cannot shrink disk", <<>>)
    ELSE IF requested > current THEN resized("", <<edit(d, requested)>>)
    ELSE resized("", <<>>)

\* Resize of the disks 1..n in order: the first validation error ends it and
\* no device change is returned with an error.
RECURSIVE resizeDisks(_, _, _)
resizeDisks(n, cur, req) ==
    IF n = 0 THEN resized("", <<>>)
    ELSE LET rest == resizeDisks(n - 1, cur, req)
             this == resizeDisk(n, cur[n], req[n])
         IN IF rest.err # "" THEN rest
            ELSE IF this.err # "" THEN resized(this.err, <<>>)
            ELSE resized("", rest.changes \o this.changes)

\* One pass of the disk resize over the VM's disks.
ReconcileDiskResize ==
    /\ diskErr = "pending"
    /\ LET out == resizeDisks(NumDisks, disks, volumes)
       IN /\ diskChanges' = out.changes
          /\ diskErr' = IF out.err = "" THEN "nil" ELSE out.err
    /\ UNCHANGED <<disks, volumes>>
    /\ UNCHANGED <<varsVM, varsOp, varsBind, varsGen, varsCr, varsCall, varsPool>>

NextDisk == ReconcileDiskResize

\* Any current and any requested capacity for each disk.
InitDisk ==
    /\ VMQuiescent
    /\ OpQuiescent
    /\ BindQuiescent
    /\ GenQuiescent
    /\ CrQuiescent
    /\ CallQuiescent
    /\ PoolQuiescent
    /\ disks \in [Disks -> Capacities]
    /\ volumes \in [Disks -> Capacities]
    /\ diskChanges = <<>>
    /\ diskErr = "pending"

SpecDisk == InitDisk /\ [][NextDisk]_vars

\* ------------------------------------------------------------------------
\* SpecCreate: createVirtualMachine of one VirtualMachine object
\* ------------------------------------------------------------------------

\* What a sub-step leaves behind: the VM object, createArgs, the calls it
\* made, and the error it returned ("" when none).
crOut(vm, args, log, err) == [vm |-> vm, args |-> args, log |-> log, err |-> err]

\* vmCreateGetPrereqs, lines 684-703: createArgs from the objects fetched; the
\* child folder and pool names come from the resource policy.
vmCreateGetPrereqs(desired) ==
    [NoCrArgs EXCEPT
        !.ResourcePolicy = desired.ResourcePolicy,
        !.ChildResourcePoolName =
            IF desired.ResourcePolicy # "nil" THEN desired.ChildResourcePoolName ELSE "",
        !.ChildFolderName =
            IF desired.ResourcePolicy # "nil" THEN desired.ChildFolderName ELSE "",
        !.HasInstanceStorage = desired.HasInstanceStorage]

\* Mutant of vmCreateValidateArgs: a missing storage class is accepted when
\* one is required.
vmCreateValidateArgs_AcceptsMissingClass(cfg, vm, args, finder) ==
    IF cfg.StorageClassRequired
    THEN IF vm.StorageClass # "" /\ args.StorageProfileID = ""
         THEN crOut(vm, args, <<>>, "no StorageProfile found for StorageClass")
         ELSE crOut(vm, args, <<>>, "")
    ELSE IF vm.StorageClass = ""
    THEN IF cfg.Datastore = ""
         THEN crOut(vm, args, <<>>, "no Datastore provided in configuration")
         ELSE IF finder = "err"
         THEN crOut(vm, args, <<"Finder.Datastore">>, "failed to find Datastore")
         ELSE crOut(vm, [args EXCEPT !.DatastoreMoID = "ds-moid"], <<"Finder.Datastore">>, "")
    ELSE crOut(vm, args, <<>>, "")

\* vmCreateValidateArgs, lines 793-828.
vmCreateValidateArgs(cfg, vm, args, finder) ==
    IF cfg.StorageClassRequired
    THEN IF vm.StorageClass = ""
         THEN crOut(vm, args, <<>>, "StorageClass is required but not specified")
         ELSE IF args.StorageProfileID = ""
         THEN crOut(vm, args, <<>>, "no StorageProfile found for StorageClass")
         ELSE crOut(vm, args, <<>>, "")
    ELSE IF vm.StorageClass = ""
    THEN IF cfg.Datastore = ""
         THEN crOut(vm, args, <<>>, "no Datastore provided in configuration")
         ELSE IF finder = "err"
         THEN crOut(vm, args, <<"Finder.Datastore">>, "failed to find Datastore")
         ELSE crOut(vm, [args EXCEPT !.DatastoreMoID = "ds-moid"], <<"Finder.Datastore">>, "")
    ELSE crOut(vm, args, <<>>, "")

\* What placement.Placement can return besides an error: a pool or none, a
\* host or none, instance-storage placement or not, zone placement or not.
PlacementResults ==
    [called : {TRUE}, err : {""}, PoolMoRef : {"", "placed-rp"},
     HostMoRef : {"nil", "host-1"}, InstanceStoragePlacement : BOOLEAN,
     ZonePlacement : BOOLEAN, ZoneName : {"zone-a"}]

\* placement.Placement returned an error.
PlacementFailed ==
    [called |-> TRUE, err |-> "placement failed", PoolMoRef |-> "", HostMoRef |-> "nil",
     InstanceStoragePlacement |-> FALSE, ZonePlacement |-> FALSE, ZoneName |-> ""]

\* createArgs after lines 473-479: the pool and host of the placement result.
placedArgs(args, res) ==
    [args EXCEPT
        !.ResourcePoolMoID = IF res.PoolMoRef # "" THEN res.PoolMoRef ELSE @,
        !.HostMoID = IF res.HostMoRef # "nil" THEN res.HostMoRef ELSE @]

\* Lines 501-506: the zone label of a zone placement.
placedZone(vm, res) ==
    IF res.ZonePlacement THEN [vm EXCEPT !.Zone = res.ZoneName] ELSE vm

\* Mutant of vmCreateDoPlacement: an instance-storage placement without a
\* host is let through and the zone label is written.
vmCreateDoPlacement_HostOptional(vm, args, res, fqdn) ==
    IF res.err # ""
    THEN crOut(vm, args, <<"placement.Placement">>, res.err)
    ELSE IF res.InstanceStoragePlacement /\ placedArgs(args, res).HostMoID # ""
    THEN IF fqdn = "err"
         THEN crOut(vm, placedArgs(args, res),
                    <<"placement.Placement", "GetESXHostFQDN">>, "GetESXHostFQDN failed")
         ELSE crOut(placedZone([vm EXCEPT
                                   !.SelectedNodeMOID = placedArgs(args, res).HostMoID,
                                   !.SelectedNode = "host-1.fqdn"], res),
                    placedArgs(args, res),
                    <<"placement.Placement", "GetESXHostFQDN">>, "")
    ELSE crOut(placedZone(vm, res), placedArgs(args, res), <<"placement.Placement">>, "")

\* Mutant of vmCreateDoPlacement: the selected-node annotations are written
\* for every placement that chose a host.
vmCreateDoPlacement_AnnotatesAnyHost(vm, args, res, fqdn) ==
    IF res.err # ""
    THEN crOut(vm, args, <<"placement.Placement">>, res.err)
    ELSE IF res.InstanceStoragePlacement /\ placedArgs(args, res).HostMoID = ""
    THEN crOut(vm, placedArgs(args, res), <<"placement.Placement">>,
               "placement result missing host required for instance storage")
    ELSE IF placedArgs(args, res).HostMoID # ""
    THEN IF fqdn = "err"
         THEN crOut(vm, placedArgs(args, res),
                    <<"placement.Placement", "GetESXHostFQDN">>, "GetESXHostFQDN failed")
         ELSE crOut(placedZone([vm EXCEPT
                                   !.SelectedNodeMOID = placedArgs(args, res).HostMoID,
                                   !.SelectedNode = "host-1.fqdn"], res),
                    placedArgs(args, res),
                    <<"placement.Placement", "GetESXHostFQDN">>, "")
    ELSE crOut(placedZone(vm, res), placedArgs(args, res), <<"placement.Placement">>, "")

\* vmCreateDoPlacement, lines 462-508: the pool and host of the result go
\* into createArgs; an instance-storage placement needs a host, whose FQDN
\* is looked up and written with its id into the VM's annotations; a zone
\* placement writes the zone label.
vmCreateDoPlacement(vm, args, res, fqdn) ==
    IF res.err # ""
    THEN crOut(vm, args, <<"placement.Placement">>, res.err)
    ELSE IF res.InstanceStoragePlacement
    THEN IF placedArgs(args, res).HostMoID = ""
         THEN crOut(vm, placedArgs(args, res), <<"placement.Placement">>,
                    "placement result missing host required for instance storage")
         ELSE IF fqdn = "err"
         THEN crOut(vm, placedArgs(args, res),
                    <<"placement.Placement", "GetESXHostFQDN">>, "GetESXHostFQDN failed")
         ELSE crOut(placedZone([vm EXCEPT
                                   !.SelectedNodeMOID = placedArgs(args, res).HostMoID,
                                   !.SelectedNode = "host-1.fqdn"], res),
                    placedArgs(args, res),
                    <<"placement.Placement", "GetESXHostFQDN">>, "")
    ELSE crOut(placedZone(vm, res), placedArgs(args, res), <<"placement.Placement">>, "")

\* Mutant of vmCreateIsReady: a resource policy that is being deleted does
\* not block the creation.
vmCreateIsReady_IgnoresDeletion(vm, args, owner, modules) ==
    IF args.ResourcePolicy # "nil" /\ owner = "err"
    THEN crOut(vm, args, <<"GetResourcePoolOwnerMoRef">>, "GetResourcePoolOwnerMoRef failed")
    ELSE IF args.ResourcePolicy # "nil" /\ modules = "err"
    THEN crOut(vm, args, <<"GetResourcePoolOwnerMoRef", "doClusterModulesExist:err">>,
               "doClusterModulesExist failed")
    ELSE IF args.ResourcePolicy # "nil" /\ modules = "missing"
    THEN crOut(vm, args, <<"GetResourcePoolOwnerMoRef", "doClusterModulesExist:missing">>,
               "VirtualMachineSetResourcePolicy cluster modules is not ready")
    ELSE IF args.HasInstanceStorage /\ ~vm.PVCsBound
    THEN crOut(vm, args,
               IF args.ResourcePolicy # "nil"
               THEN <<"GetResourcePoolOwnerMoRef", "doClusterModulesExist:exist">> ELSE <<>>,
               "instance storage PVCs are not bound yet")
    ELSE crOut(vm, args,
               IF args.ResourcePolicy # "nil"
               THEN <<"GetResourcePoolOwnerMoRef", "doClusterModulesExist:exist">> ELSE <<>>,
               "")

\* vmCreateIsReady, lines 569-600: with a resource policy, it must not be
\* being deleted and its cluster modules must exist in the pool's cluster;
\* with instance storage the VM must carry the PVCs-bound annotation.
vmCreateIsReady(vm, args, owner, modules) ==
    IF args.ResourcePolicy = "deleting"
    THEN crOut(vm, args, <<>>,
               "cannot create VirtualMachine when its resource policy is being deleted")
    ELSE IF args.ResourcePolicy # "nil" /\ owner = "err"
    THEN crOut(vm, args, <<"GetResourcePoolOwnerMoRef">>, "GetResourcePoolOwnerMoRef failed")
    ELSE IF args.ResourcePolicy # "nil" /\ modules = "err"
    THEN crOut(vm, args, <<"GetResourcePoolOwnerMoRef", "doClusterModulesExist:err">>,
               "doClusterModulesExist failed")
    ELSE IF args.ResourcePolicy # "nil" /\ modules = "missing"
    THEN crOut(vm, args, <<"GetResourcePoolOwnerMoRef", "doClusterModulesExist:missing">>,
               "VirtualMachineSetResourcePolicy cluster modules is not ready")
    ELSE IF args.HasInstanceStorage /\ ~vm.PVCsBound
    THEN crOut(vm, args,
               IF args.ResourcePolicy # "nil"
               THEN <<"GetResourcePoolOwnerMoRef", "doClusterModulesExist:exist">> ELSE <<>>,
               "instance storage PVCs are not bound yet")
    ELSE crOut(vm, args,
               IF args.ResourcePolicy # "nil"
               THEN <<"GetResourcePoolOwnerMoRef", "doClusterModulesExist:exist">> ELSE <<>>,
               "")

\* createVirtualMachine after a sub-step returned out: it returns the error,
\* or goes on to the sub-step next.
crReturn(out, next) ==
    /\ crVM' = out.vm
    /\ crArgs' = out.args
    /\ crLog' = crLog \o out.log
    /\ crErr' = out.err
    /\ crPC' = IF out.err # "" THEN "done" ELSE next

\* Lines 361-368: vmCreateGetArgs (prerequisite fetch, storage
\* prerequisites, argument validation; either fetch can fail), then
\* Status.Phase = Creating.
createVirtualMachine_GetArgs ==
    /\ crPC = "vmCreateGetArgs"
    /\ \E fetch \in {"ok", "vmCreateGetPrereqs failed", "vmCreateGetStoragePrereqs failed"},
          finder \in {"ok", "err"} :
          LET args == [vmCreateGetPrereqs(crDesired) EXCEPT
                          !.StorageProfileID = crDesired.StorageProfileID]
              out == IF fetch # "ok"
                     THEN crOut(crVM, NoCrArgs, <<"vmCreateGetArgs">>, fetch)
                     ELSE crOut(vmCreateValidateArgs(crCfg, crVM, args, finder).vm,
                                vmCreateValidateArgs(crCfg, crVM, args, finder).args,
                                <<"vmCreateGetArgs", "vmCreateValidateArgs">>
                                \o vmCreateValidateArgs(crCfg, crVM, args, finder).log,
                                vmCreateValidateArgs(crCfg, crVM, args, finder).err)
          IN crReturn([out EXCEPT !.vm = IF out.err = ""
                                         THEN [out.vm EXCEPT !.Phase = "Creating"]
                                         ELSE out.vm],
                      "vmCreateDoPlacement")
    /\ UNCHANGED <<crCfg, crDesired, crStart, crPlacement>>
    /\ UNCHANGED <<varsVM, varsOp, varsBind, varsGen, varsDisk, varsCall, varsPool>>

\* Lines 370-373: vmCreateDoPlacement.
createVirtualMachine_DoPlacement ==
    /\ crPC = "vmCreateDoPlacement"
    /\ \E res \in PlacementResults \cup {PlacementFailed}, fqdn \in {"ok", "err"} :
          /\ crPlacement' = res
          /\ crReturn(vmCreateDoPlacement(crVM, crArgs, res, fqdn),
                      "vmCreateGetFolderAndRPMoIDs")
    /\ UNCHANGED <<crCfg, crDesired, crStart>>
    /\ UNCHANGED <<varsVM, varsOp, varsBind, varsGen, varsDisk, varsCall, varsPool>>

\* Lines 375-378: vmCreateGetFolderAndRPMoIDs with the VM's zone label as it
\* is now.
createVirtualMachine_GetFolderAndRPMoIDs ==
    /\ crPC = "vmCreateGetFolderAndRPMoIDs"
    /\ \E inv \in Inventories, broken \in {"none"} \cup BindLookups :
          LET out == resolveFolder(resolvePool(crArgs, crVM.Zone, inv, broken), inv, broken)
          IN crReturn(crOut(crVM, out.args, out.log, out.err), "vmCreateIsReady")
    /\ UNCHANGED <<crCfg, crDesired, crStart, crPlacement>>
    /\ UNCHANGED <<varsVM, varsOp, varsBind, varsGen, varsDisk, varsCall, varsPool>>

\* Lines 380-383: vmCreateIsReady.
createVirtualMachine_IsReady ==
    /\ crPC = "vmCreateIsReady"
    /\ \E owner \in {"ok", "err"}, modules \in {"exist", "missing", "err"} :
          LET out == vmCreateIsReady(crVM, crArgs, owner, modules)
          IN crReturn([out EXCEPT !.log = <<"vmCreateIsReady">> \o @],
                      "vmCreateConcurrentAllowed")
    /\ UNCHANGED <<crCfg, crDesired, crStart, crPlacement>>
    /\ UNCHANGED <<varsVM, varsOp, varsBind, varsGen, varsDisk, varsCall, varsPool>>

\* Lines 385-396: the MaxDeployThreadsContextKey lookup, then
\* vmCreateConcurrentAllowed, which grants or denies depending on the
\* creations of the other VMs; a denial returns (nil, nil).
createVirtualMachine_ConcurrentAllowed ==
    /\ crPC = "vmCreateConcurrentAllowed"
    /\ \E outcome \in {"missing", "denied", "granted"} :
          /\ crLog' = IF outcome = "missing" THEN crLog
                      ELSE Append(crLog, "vmCreateConcurrentAllowed:" \o outcome)
          /\ crErr' = IF outcome = "missing"
                      THEN "MaxDeployThreadsContextKey missing from context" ELSE ""
          /\ crPC' = IF outcome = "granted" THEN "CreateVirtualMachine" ELSE "done"
    /\ UNCHANGED <<crCfg, crDesired, crVM, crStart, crArgs, crPlacement>>
    /\ UNCHANGED <<varsVM, varsOp, varsBind, varsGen, varsDisk, varsCall, varsPool>>

\* Mutant of createVirtualMachine_Create: the status is set before the
\* error of the create call is looked at.
createVirtualMachine_Create_StatusOnError ==
    /\ crPC = "CreateVirtualMachine"
    /\ \E ok \in BOOLEAN :
          /\ crLog' = crLog \o <<"CreateVirtualMachine", "createDeferFn">>
          /\ crErr' = IF ok THEN "" ELSE "CreateVirtualMachine failed"
          /\ crVM' = [crVM EXCEPT !.Phase = "Created", !.UniqueID = "vm-moid"]
    /\ crPC' = "done"
    /\ UNCHANGED <<crCfg, crDesired, crStart, crArgs, crPlacement>>
    /\ UNCHANGED <<varsVM, varsOp, varsBind, varsGen, varsDisk, varsCall, varsPool>>

\* Lines 398-421: ses.CreateVirtualMachine; on success Status.Phase = Created
\* and Status.UniqueID; the deferred decrement runs on both paths.
createVirtualMachine_Create ==
    /\ crPC = "CreateVirtualMachine"
    /\ \E ok \in BOOLEAN :
          /\ crLog' = crLog \o <<"CreateVirtualMachine", "createDeferFn">>
          /\ crErr' = IF ok THEN "" ELSE "CreateVirtualMachine failed"
          /\ crVM' = IF ok THEN [crVM EXCEPT !.Phase = "Created", !.UniqueID = "vm-moid"]
                     ELSE crVM
    /\ crPC' = "done"
    /\ UNCHANGED <<crCfg, crDesired, crStart, crArgs, crPlacement>>
    /\ UNCHANGED <<varsVM, varsOp, varsBind, varsGen, varsDisk, varsCall, varsPool>>

NextCreate ==
    \/ createVirtualMachine_GetArgs
    \/ createVirtualMachine_DoPlacement
    \/ createVirtualMachine_GetFolderAndRPMoIDs
    \/ createVirtualMachine_IsReady
    \/ createVirtualMachine_ConcurrentAllowed
    \/ createVirtualMachine_Create

\* A reconciliation of a VirtualMachine object without a vCenter VM: any
\* configuration, any storage class and storage profile, any resource
\* policy, with or without instance storage and bound PVCs; the phase, the
\* zone label and the selected-node annotations are as an earlier
\* reconciliation that did not get to the create call can have left them.
InitCreate ==
    /\ VMQuiescent
    /\ OpQuiescent
    /\ BindQuiescent
    /\ GenQuiescent
    /\ DiskQuiescent
    /\ CallQuiescent
    /\ PoolQuiescent
    /\ crCfg \in [StorageClassRequired : BOOLEAN, Datastore : {"", "ds-1"}]
    /\ crDesired \in [ResourcePolicy : {"nil", "ready", "deleting"},
                      ChildResourcePoolName : {"", "child-rp"},
                      ChildFolderName : {"", "child-folder"},
                      HasInstanceStorage : BOOLEAN,
                      StorageProfileID : {"", "profile-1"}]
    /\ crDesired.ResourcePolicy = "nil" =>
          (crDesired.ChildResourcePoolName = "" /\ crDesired.ChildFolderName = "")
    /\ crVM \in [StorageClass : {"", "sc-1"}, SelectedNodeMOID : {"", "host-0"},
                 SelectedNode : {"", "host-0.fqdn"}, Zone : {"", "zone-old"},
                 PVCsBound : BOOLEAN, Phase : {"", "Creating"}, UniqueID : {""}]
    /\ crVM.SelectedNodeMOID = "" <=> crVM.SelectedNode = ""
    /\ crVM.SelectedNodeMOID # "" => crVM.Phase = "Creating"
    /\ crVM.StorageClass = "" => crDesired.StorageProfileID = ""
    /\ crVM.PVCsBound => crDesired.HasInstanceStorage
    /\ crStart = crVM
    /\ crArgs = NoCrArgs
    /\ crPlacement = NoPlacement
    /\ crLog = <<>>
    /\ crErr = ""
    /\ crPC = "vmCreateGetArgs"

SpecCreate == InitCreate /\ [][NextCreate]_vars

\* ------------------------------------------------------------------------
\* SpecCall: one call of a function that talks to vCenter or to the API
\* server, with its inputs and the answers of the other side in callIn.

\* The nil error. An error is the sequence of the parts of its message,
\* outermost wrapping first.
Nil == <<>>

\* The localized message of the fault of a failed vCenter task.
LocalizedMessage == "The operation is not allowed in the current state"

\* What happens to a vCenter task: the call that starts it fails, the task
\* succeeds, the task fails with a fault, or the wait itself fails (the
\* context is cancelled) without a task fault.
TaskOutcomes == {"ok", "startErr", "waitErr", "waitErrNoFault"}

\* The error the call that starts a task returns when it fails.
StartError == <<"ServerFaultCode: permission denied">>

\* The error task.Wait and task.WaitForResult return: the text of a task
\* error is the localized message of its fault.
WaitError(outcome) ==
    IF outcome = "waitErr" THEN <<LocalizedMessage>> ELSE <<"context canceled">>

\* What a call returns and did: its error, the calls it made in order, and
\* the value it returned or handed to vCenter (at most one).
callResult(err, log, value) == [err |-> err, log |-> log, value |-> value]

\* The shape shared by ReconfigureVirtualMachine and RelocateVirtualMachine
\* of package virtualmachine: start the task and return the start error, or
\* wait for the task and return the error of the wait as it is.
startAndWait(start, outcome, value) ==
    IF outcome = "startErr" THEN callResult(StartError, <<start>>, value)
    ELSE IF outcome = "ok" THEN callResult(Nil, <<start, "task.Wait">>, value)
    ELSE callResult(WaitError(outcome), <<start, "task.Wait">>, value)

\* virtualmachine.ReconfigureVirtualMachine.
virtualmachine_ReconfigureVirtualMachine(outcome, reconfigureSpec) ==
    startAndWait("vcVM.Reconfigure", outcome, <<reconfigureSpec>>)

\* virtualmachine.RelocateVirtualMachine.
virtualmachine_RelocateVirtualMachine(outcome, relocateSpec) ==
    startAndWait("vcVM.Relocate", outcome, <<relocateSpec>>)

\* DeleteChildResourcePool: nothing to do when the child is not found; the
\* error of the wait is wrapped with the pool and the localized message of
\* the task's fault only when the task result carries a fault.
DeleteChildResourcePool_(inv, broken, outcome) ==
    IF findChildRP(inv, broken).err # ""
    THEN callResult(<<findChildRP(inv, broken).err>>, <<"findChildRP">>, <<>>)
    ELSE IF findChildRP(inv, broken).moid = ""
    THEN callResult(Nil, <<"findChildRP">>, <<>>)
    ELSE IF outcome = "startErr"
    THEN callResult(StartError, <<"findChildRP", "childRP.Destroy">>, <<>>)
    ELSE IF outcome = "ok"
    THEN callResult(Nil, <<"findChildRP", "childRP.Destroy", "task.WaitForResult">>, <<>>)
    ELSE IF outcome = "waitErrNoFault"
    THEN callResult(WaitError(outcome),
                    <<"findChildRP", "childRP.Destroy", "task.WaitForResult">>, <<>>)
    ELSE callResult(<<"destroy ResourcePool", findChildRP(inv, broken).moid, "task failed">>
                        \o WaitError(outcome) \o <<LocalizedMessage>>,
                    <<"findChildRP", "childRP.Destroy", "task.WaitForResult">>, <<>>)

\* The devices a VM can have, in the order vm.Device returns them.
VMDevices ==
    {<<>>,
     <<[kind |-> "VirtualDisk", key |-> 2000]>>,
     <<[kind |-> "VirtualE1000", key |-> 4000], [kind |-> "VirtualVmxnet3", key |-> 4001]>>,
     <<[kind |-> "VirtualVmxnet3", key |-> 4001], [kind |-> "VirtualVmxnet3", key |-> 4000]>>,
     <<[kind |-> "VirtualDisk", key |-> 2000], [kind |-> "VirtualVmxnet3", key |-> 4000],
       [kind |-> "VirtualVmxnet3", key |-> 4001]>>}

\* The positions of the vmxnet3 devices in a device list.
vmxnet3At(vdl) == {i \in 1..Len(vdl) : vdl[i].kind = "VirtualVmxnet3"}

\* GetNetworkFromVM: the first vmxnet3 device of the VM; an error when the
\* device list cannot be read or holds no vmxnet3 device.
GetNetworkFromVM(vdl, deviceErr) ==
    IF deviceErr
    THEN [nic |-> <<>>,
          err |-> <<"Failed to find devices of virtual machine"
                     >> \o StartError]
    ELSE IF vmxnet3At(vdl) = {}
    THEN [nic |-> <<>>, err |-> <<"VM doesn't have a network card">>]
    ELSE [nic |-> <<vdl[CHOOSE i \in vmxnet3At(vdl) : \A j \in vmxnet3At(vdl) : i <= j]>>,
          err |-> Nil]

\* The requests' relocateSpec: names, not identifiers.
RelocateSpecs ==
    [hostIp : {"10.0.0.1"}, resourcePoolName : {"rp-dst"}, datastoreName : {"ds-dst"},
     vmNetworkName : {"primary-vds-2", "workload-net"}, folderName : {"folder-dst"}]

\* The lookups RelocateVirtualMachine makes after it found the VM, in order.
RelocateLookups ==
    <<"HostSystem", "ResourcePool", "Datastore", "Network", "GetNetworkFromVM", "Folder">>

\* The name RelocateVirtualMachine hands to each Finder lookup.
lookupName(lookup, relSpec) ==
    IF lookup = "HostSystem" THEN relSpec.hostIp
    ELSE IF lookup = "ResourcePool" THEN relSpec.resourcePoolName
    ELSE IF lookup = "Datastore" THEN relSpec.datastoreName
    ELSE IF lookup = "Network" THEN relSpec.vmNetworkName
    ELSE relSpec.folderName

\* client.Finder(): the reference of the object of a kind with a name.
FinderRef(kind, name) == [Type |-> kind, Value |-> kind \o ":" \o name]

\* Mutant of lookupErr: a destination folder that is not found is not an
\* error.
lookupErr_FolderOptional(lookup, in) ==
    IF lookup = "GetNetworkFromVM" THEN GetNetworkFromVM(in.devices, in.deviceErr).err
    ELSE IF in.missing = lookup /\ lookup # "Folder"
    THEN <<lookup \o " '" \o lookupName(lookup, in.relocateSpec) \o "' not found">>
    ELSE Nil

\* The error of a lookup of RelocateVirtualMachine, Nil when it succeeds:
\* the Finder fails for the kind that in.missing names.
lookupErr(lookup, in) ==
    IF lookup = "GetNetworkFromVM" THEN GetNetworkFromVM(in.devices, in.deviceErr).err
    ELSE IF in.missing = lookup
    THEN <<lookup \o " '" \o lookupName(lookup, in.relocateSpec) \o "' not found">>
    ELSE Nil

\* The positions of the lookups that fail.
failingLookups(in) ==
    {i \in 1..Len(RelocateLookups) : lookupErr(RelocateLookups[i], in) # Nil}

\* The network name RelocateVirtualMachine writes into the backing.
dstVMNetworkName == "primary-vds-2"

\* The VirtualMachineRelocateSpec RelocateVirtualMachine builds: the one
\* device change edits the device GetNetworkFromVM returned, with a
\* backing that names dstVMNetworkName.
relocateSpecOf(in) ==
    [Folder |-> FinderRef("Folder", in.relocateSpec.folderName),
     Datastore |-> FinderRef("Datastore", in.relocateSpec.datastoreName),
     Pool |-> FinderRef("ResourcePool", in.relocateSpec.resourcePoolName),
     Host |-> FinderRef("HostSystem", in.relocateSpec.hostIp),
     DeviceChange |->
        <<[Operation |-> "edit",
           Device |-> GetNetworkFromVM(in.devices, in.deviceErr).nic[1],
           Backing |-> [DeviceName |-> dstVMNetworkName]]>>]

\* vSphereVMProvider.RelocateVirtualMachine: the client, the VM (nothing
\* to do when it does not exist), the lookups in order up to the first
\* that fails, then virtualmachine.RelocateVirtualMachine.
vs_RelocateVirtualMachine(in) ==
    IF in.vm = "getVcClientErr"
    THEN callResult(<<"getVcClient failed">>, <<"getVcClient">>, <<>>)
    ELSE IF in.vm = "getVMErr"
    THEN callResult(<<"getVM failed">>, <<"getVcClient", "getVM">>, <<>>)
    ELSE IF in.vm = "absent"
    THEN callResult(Nil, <<"getVcClient", "getVM">>, <<>>)
    ELSE IF failingLookups(in) # {}
    THEN callResult(
           lookupErr(RelocateLookups[CHOOSE i \in failingLookups(in) :
                                        \A j \in failingLookups(in) : i <= j], in),
           <<"getVcClient", "getVM">>
             \o SubSeq(RelocateLookups, 1,
                       CHOOSE i \in failingLookups(in) :
                          \A j \in failingLookups(in) : i <= j),
           <<>>)
    ELSE callResult(
           virtualmachine_RelocateVirtualMachine(in.task, relocateSpecOf(in)).err,
           <<"getVcClient", "getVM">> \o RelocateLookups
             \o virtualmachine_RelocateVirtualMachine(in.task, relocateSpecOf(in)).log,
           virtualmachine_RelocateVirtualMachine(in.task, relocateSpecOf(in)).value)

\* What the client library says of the configuration it is given.
BuildOutcomes == {"ok", "ClientConfig", "dynamic.NewForConfig", "kubernetes.NewForConfig"}

\* The Get calls createClientsFromConfig makes: the SupervisorLocation the
\* operation names, the Secret the location names, and the Secret
\* ms-1-secret of namespace default.
ClientReads ==
    <<"Get SupervisorLocation", "Get Secret identity", "Get Secret default/ms-1-secret">>

\* The clients createClientsFromConfig returns: built from the location's
\* host and port and the identity secret's tls.crt and tls.key.
clientsOf(in) ==
    [Server |-> <<"https", in.host, in.port>>,
     ClientCertificateData |-> in.identity[1],
     ClientKeyData |-> in.identity[2]]

\* createClientsFromConfig: each Get in order, returning its error; then
\* the client configuration, the dynamic client and the clientset.
createClientsFromConfig_(in) ==
    IF ~in.location
    THEN callResult(<<"SupervisorLocation not found">>, SubSeq(ClientReads, 1, 1), <<>>)
    ELSE IF in.identity = <<>>
    THEN callResult(<<"Secret identity not found">>, SubSeq(ClientReads, 1, 2), <<>>)
    ELSE IF ~in.ms1secret
    THEN callResult(<<"Secret ms-1-secret not found">>, ClientReads, <<>>)
    ELSE IF in.build # "ok"
    THEN callResult(<<in.build \o " failed">>, ClientReads, <<>>)
    ELSE callResult(Nil, ClientReads, <<clientsOf(in)>>)

\* The call returns: what it did and what it returned are recorded.
callReturn(res) ==
    /\ callLog' = res.log
    /\ callOut' = [done |-> TRUE, err |-> res.err, value |-> res.value]
    /\ UNCHANGED callIn

\* A cold migration relocates the VM.
ProviderRelocateVirtualMachine ==
    /\ callIn.fn = "RelocateVirtualMachine"
    /\ ~callOut.done
    /\ callReturn(vs_RelocateVirtualMachine(callIn))
    /\ UNCHANGED <<varsVM, varsOp, varsBind, varsGen, varsDisk, varsCr, varsPool>>

\* The update path reconfigures the VM.
ReconfigureVirtualMachine ==
    /\ callIn.fn = "ReconfigureVirtualMachine"
    /\ ~callOut.done
    /\ callReturn(virtualmachine_ReconfigureVirtualMachine(callIn.task, callIn.configSpec))
    /\ UNCHANGED <<varsVM, varsOp, varsBind, varsGen, varsDisk, varsCr, varsPool>>

\* A resource policy's child pool is deleted.
DeleteChildResourcePool ==
    /\ callIn.fn = "DeleteChildResourcePool"
    /\ ~callOut.done
    /\ callReturn(DeleteChildResourcePool_(callIn.inv, callIn.broken, callIn.task))
    /\ UNCHANGED <<varsVM, varsOp, varsBind, varsGen, varsDisk, varsCr, varsPool>>

\* testTargetClusterConnection or importVM builds the remote clients.
createClientsFromConfig ==
    /\ callIn.fn = "createClientsFromConfig"
    /\ ~callOut.done
    /\ callReturn(createClientsFromConfig_(callIn))
    /\ UNCHANGED <<varsVM, varsOp, varsBind, varsGen, varsDisk, varsCr, varsPool>>

NextCall ==
    \/ ProviderRelocateVirtualMachine
    \/ ReconfigureVirtualMachine
    \/ DeleteChildResourcePool
    \/ createClientsFromConfig

\* The calls and their inputs.
CallInputs ==
    [fn : {"RelocateVirtualMachine"}, relocateSpec : RelocateSpecs,
     vm : {"getVcClientErr", "getVMErr", "absent", "present"},
     missing : {"none", "HostSystem", "ResourcePool", "Datastore", "Network", "Folder"},
     devices : VMDevices, deviceErr : BOOLEAN, task : TaskOutcomes]
    \cup [fn : {"ReconfigureVirtualMachine"}, configSpec : {"cpu", "memory"},
          task : TaskOutcomes]
    \cup [fn : {"DeleteChildResourcePool"}, inv : Inventories,
          broken : {"none", "findChildRP"}, task : TaskOutcomes]
    \cup [fn : {"createClientsFromConfig"},
          caller : {"testTargetClusterConnection", "importVM"},
          location : BOOLEAN, host : {"10.0.0.9"}, port : {6443},
          identity : {<<>>, <<"cert-1", "key-1">>, <<"", "">>},
          ms1secret : BOOLEAN, build : BuildOutcomes]

InitCall ==
    /\ VMQuiescent
    /\ OpQuiescent
    /\ BindQuiescent
    /\ GenQuiescent
    /\ DiskQuiescent
    /\ CrQuiescent
    /\ PoolQuiescent
    /\ callIn \in CallInputs
    /\ callLog = <<>>
    /\ callOut = [done |-> FALSE, err |-> Nil, value |-> <<>>]

SpecCall == InitCall /\ [][NextCall]_vars

\* ------------------------------------------------------------------------
\* SpecPool: calls of CreateOrUpdateChildResourcePool and of
\* DeleteChildResourcePool, one after the other, for one child name under
\* one parent ResourcePool
\* ------------------------------------------------------------------------

\* The MoID vCenter gives to the n-th child pool created under the parent.
poolMoID(n) == IF n = 1 THEN "resgroup-1" ELSE IF n = 2 THEN "resgroup-2"
               ELSE IF n = 3 THEN "resgroup-3" ELSE "resgroup-4"

\* What is under the parent by the child's name before any call: nothing,
\* a pool that was there before, or an object of another kind.
PoolStates ==
    {[state |-> "absent", moid |-> ""], [state |-> "match", moid |-> "resgroup-0"],
     [state |-> "otherKind", moid |-> "vapp-0"]}

\* findChildRP for the child as it is now under the parent.
findChildRPIn(pool, broken) ==
    IF findChildRP([childRP |-> pool.state, childFolder |-> "absent"], broken).err # ""
       \/ findChildRP([childRP |-> pool.state, childFolder |-> "absent"], broken).moid = ""
    THEN findChildRP([childRP |-> pool.state, childFolder |-> "absent"], broken)
    ELSE found(pool.moid)

\* One call in poolLog: the function, the child before the call, the error
\* and the MoID returned, and the calls to vCenter it made.
poolCall(fn, pool, err, moid, calls) ==
    [fn |-> fn, before |-> pool, err |-> err, moid |-> moid, calls |-> calls]

\* Mutant of CreateOrUpdateChildResourcePool: the pool is created without a
\* look at what exists.
CreateOrUpdateChildResourcePool_AlwaysCreates ==
    /\ Len(poolLog) < MaxPoolCalls
    /\ \E broken \in {"none", "findChildRP"}, created \in BOOLEAN :
          IF findChildRPIn(poolInv, broken).err # ""
          THEN /\ poolLog' = Append(poolLog,
                     poolCall("CreateOrUpdateChildResourcePool", poolInv,
                              <<findChildRPIn(poolInv, broken).err>>, "", <<"findChildRP">>))
               /\ UNCHANGED <<poolInv, poolCreated>>
          ELSE IF created
          THEN /\ poolLog' = Append(poolLog,
                     poolCall("CreateOrUpdateChildResourcePool", poolInv, Nil,
                              poolMoID(poolCreated + 1),
                              <<"findChildRP", "parentRP.Create">>))
               /\ poolInv' = [state |-> "match", moid |-> poolMoID(poolCreated + 1)]
               /\ poolCreated' = poolCreated + 1
          ELSE /\ poolLog' = Append(poolLog,
                     poolCall("CreateOrUpdateChildResourcePool", poolInv, StartError, "",
                              <<"findChildRP", "parentRP.Create">>))
               /\ UNCHANGED <<poolInv, poolCreated>>
    /\ UNCHANGED <<varsVM, varsOp, varsBind, varsGen, varsDisk, varsCr, varsCall>>

\* CreateOrUpdateChildResourcePool: findChildRP and its error; parentRP.Create
\* only when no child was found, and its error; the MoID of the child found
\* or created.
CreateOrUpdateChildResourcePool ==
    /\ Len(poolLog) < MaxPoolCalls
    /\ \E broken \in {"none", "findChildRP"}, created \in BOOLEAN :
          IF findChildRPIn(poolInv, broken).err # ""
          THEN /\ poolLog' = Append(poolLog,
                     poolCall("CreateOrUpdateChildResourcePool", poolInv,
                              <<findChildRPIn(poolInv, broken).err>>, "", <<"findChildRP">>))
               /\ UNCHANGED <<poolInv, poolCreated>>
          ELSE IF findChildRPIn(poolInv, broken).moid # ""
          THEN /\ poolLog' = Append(poolLog,
                     poolCall("CreateOrUpdateChildResourcePool", poolInv, Nil,
                              findChildRPIn(poolInv, broken).moid, <<"findChildRP">>))
               /\ UNCHANGED <<poolInv, poolCreated>>
          ELSE IF created
          THEN /\ poolLog' = Append(poolLog,
                     poolCall("CreateOrUpdateChildResourcePool", poolInv, Nil,
                              poolMoID(poolCreated + 1),
                              <<"findChildRP", "parentRP.Create">>))
               /\ poolInv' = [state |-> "match", moid |-> poolMoID(poolCreated + 1)]
               /\ poolCreated' = poolCreated + 1
          ELSE /\ poolLog' = Append(poolLog,
                     poolCall("CreateOrUpdateChildResourcePool", poolInv, StartError, "",
                              <<"findChildRP", "parentRP.Create">>))
               /\ UNCHANGED <<poolInv, poolCreated>>
    /\ UNCHANGED <<varsVM, varsOp, varsBind, varsGen, varsDisk, varsCr, varsCall>>

\* Whether the child is gone after a DeleteChildResourcePool that made the
\* calls log with the task outcome: gone when the destroy task succeeded,
\* there when it was not started or failed, either when the wait failed
\* without a task fault.
goneAfter(log, outcome) ==
    IF "task.WaitForResult" \notin Range(log) THEN {FALSE}
    ELSE IF outcome = "ok" THEN {TRUE}
    ELSE IF outcome = "waitErrNoFault" THEN BOOLEAN
    ELSE {FALSE}

\* DeleteChildResourcePool on the child as it is now.
PoolDeleteChildResourcePool ==
    /\ Len(poolLog) < MaxPoolCalls
    /\ \E broken \in {"none", "findChildRP"}, outcome \in TaskOutcomes :
          \E gone \in goneAfter(
                DeleteChildResourcePool_([childRP |-> poolInv.state, childFolder |-> "absent"],
                                         broken, outcome).log, outcome) :
             /\ poolLog' = Append(poolLog,
                   poolCall("DeleteChildResourcePool", poolInv,
                      DeleteChildResourcePool_(
                         [childRP |-> poolInv.state, childFolder |-> "absent"],
                         broken, outcome).err,
                      "",
                      DeleteChildResourcePool_(
                         [childRP |-> poolInv.state, childFolder |-> "absent"],
                         broken, outcome).log))
             /\ poolInv' = IF gone THEN [state |-> "absent", moid |-> ""] ELSE poolInv
             /\ UNCHANGED poolCreated
    /\ UNCHANGED <<varsVM, varsOp, varsBind, varsGen, varsDisk, varsCr, varsCall>>

NextPool ==
    \/ CreateOrUpdateChildResourcePool
    \/ PoolDeleteChildResourcePool

InitPool ==
    /\ VMQuiescent
    /\ OpQuiescent
    /\ BindQuiescent
    /\ GenQuiescent
    /\ DiskQuiescent
    /\ CrQuiescent
    /\ CallQuiescent
    /\ poolInv \in PoolStates
    /\ poolCreated = 0
    /\ poolLog = <<>>

SpecPool == InitPool /\ [][NextPool]_vars

\* ------------------------------------------------------------------------
\* Properties of SpecVM
\* ------------------------------------------------------------------------

\* Reconciliations that were granted the gate and have not released it.
Holders == {v \in VMs : granted[v] /\ released[v] = 0}

\* The reconciliation of v ended with a denial by the gate.
Denied(v) == pc[v] = "idle" /\ "gate" \in Range(trace[v]) /\ ~granted[v]

Max(a, b) == IF a >= b THEN a ELSE b

\* C1: with limit N = maxDeployThreads used by every caller, at most N
\* reconciliations hold the gate in any reachable state (none when N <= 0),
\* so an attempt that finds the counter >= N is not granted; and an attempt
\* waits for nothing but the mutex: with the mutex free it can take it, and
\* once under the mutex its check completes at once, whatever the counter.
C1_GateBound ==
    /\ Cardinality(Holders) <= Max(maxDeployThreads, 0)
    /\ concurrentCreateCount <= Max(maxDeployThreads, 0)
    /\ \A v \in VMs :
          /\ (pc[v] = "gateLock" /\ createCountLock = 0) => ENABLED gateLock(v)
          /\ pc[v] = "gateCheck" => ENABLED gateCheck(v)
          /\ (pc[v] = "gateCheck" /\ concurrentCreateCount >= maxDeployThreads)
                => ~granted[v]

\* A reconciliation was denied while the gate is full of other holders.
C1_Witness ==
    \E v \in VMs :
        /\ Denied(v)
        /\ maxDeployThreads >= 1
        /\ Cardinality(Holders) = maxDeployThreads
        /\ v \notin Holders

\* C2: the counter always equals the number of reconciliations granted and
\* not yet released (a grant adds one, a release subtracts one), the release
\* of a grant has run exactly once when the create call has returned
\* (success or failure) and createVirtualMachine is left, it never runs
\* without a grant; the counter is never negative and is 0 when nobody holds
\* the gate.
C2_ReleaseDiscipline ==
    /\ concurrentCreateCount = Cardinality(Holders)
    /\ concurrentCreateCount >= 0
    /\ (Holders = {} => concurrentCreateCount = 0)
    /\ \A v \in VMs :
          /\ released[v] <= 1
          /\ (released[v] = 1 => granted[v])
          /\ (pc[v] \in {"idle", "update"} /\ granted[v] => released[v] = 1)
          /\ (pc[v] \in {"create"} => granted[v] /\ released[v] = 0)

\* A failed create call was released and the counter is back to 0.
C2_Witness ==
    \E v \in VMs :
        /\ pc[v] = "idle"
        /\ failed[v] = "create"
        /\ granted[v]
        /\ released[v] = 1
        /\ concurrentCreateCount = 0

\* C3: a reconciliation denied by the gate returns nil, has issued neither
\* the create call nor the update call, leaves the vCenter VM absent, and
\* has not changed the counter (it never held the gate, and the counter
\* counts exactly the holders).
C3_DeniedIsNotAnError ==
    \A v \in VMs :
        Denied(v) => /\ result[v] = "nil"
                     /\ "create" \notin Range(trace[v])
                     /\ "update" \notin Range(trace[v])
                     /\ ~vcVM[v]
                     /\ released[v] = 0
                     /\ v \notin Holders
                     /\ concurrentCreateCount = Cardinality(Holders \ {v})

\* A reconciliation was denied and returned nil.
C3_Witness ==
    \E v \in VMs : Denied(v) /\ result[v] = "nil" /\ concurrentCreateCount >= 1

\* The status of v as a record.
statusOf(v) == [phase |-> phase[v], uniqueID |-> uniqueID[v]]

\* Sub-steps of the Absent-to-Creating transition named by C9.
C9_GetArgsSteps == {"prereqs", "instanceStorage", "storagePrereqs", "validateArgs"}

C9_LaterSteps == {"placement", "folderAndRP", "isReady"}

\* C9 as stated, for the failing sub-steps: the step of a reconciliation
\* that ends it with a failed sub-step leaves the status (phase, unique id)
\* as it was when the reconciliation started.
C9_Original ==
    [][\A v \in VMs :
         (pc[v] = "idle" /\ pc'[v] = "idle"
          /\ failed'[v] \in C9_GetArgsSteps \cup C9_LaterSteps)
         => statusOf(v)' = statusOf(v)]_vars

\* C9 amended: a failure inside vmCreateGetArgs (prerequisite fetch,
\* instance-storage volumes, storage resolution, argument validation) leaves
\* phase and unique id as they were when the reconciliation started; a
\* failure of placement, resource binding or the readiness check, or a
\* denial, leaves the unique id as it was (empty, the VM was never created)
\* and the phase set to Creating.
C9_AbortStatus ==
    /\ [][\A v \in VMs :
            /\ (pc[v] = "idle" /\ pc'[v] = "idle" /\ failed'[v] \in C9_GetArgsSteps)
                  => statusOf(v)' = statusOf(v)
            /\ (pc[v] = "idle" /\ pc'[v] = "idle" /\ failed'[v] \in C9_LaterSteps)
                  => (uniqueID'[v] = uniqueID[v] /\ phase'[v] = "Creating")
            /\ (pc[v] = "gateCheck" /\ pc'[v] = "idle")
                  => (uniqueID'[v] = uniqueID[v] /\ phase'[v] = "Creating")]_vars
    /\ [](\A v \in VMs :
            (pc[v] = "idle" /\ (failed[v] \in C9_LaterSteps \/ Denied(v)))
            => (phase[v] = "Creating" /\ uniqueID[v] = "" /\ ~vcVM[v]))

\* Placement failed in one reconciliation, argument validation in another
\* that left the phase empty, and a third outcome was a denial.
C9_Witness ==
    \E v, w \in VMs :
        /\ pc[v] = "idle" /\ failed[v] = "placement" /\ phase[v] = "Creating"
        /\ pc[w] = "idle" /\ failed[w] = "validateArgs" /\ phase[w] = ""

\* Order of the sub-steps named by C10, up to the gate.
C10_Order ==
    <<"prereqs", "storagePrereqs", "genConfigSpec", "validateArgs",
      "placement", "folderAndRP", "isReady", "gate">>

\* s lists the elements of order, each present, in that relative order.
InOrder(s, order) ==
    /\ \A i \in 1..Len(order) : IndexOf(s, order[i]) > 0
    /\ \A i \in 1..(Len(order) - 1) : IndexOf(s, order[i]) < IndexOf(s, order[i+1])

\* C10: when the gate is reached, and so whenever the create call is
\* issued, prerequisite fetch, storage resolution, config spec generation,
\* argument validation, placement, resource binding and readiness check were
\* entered before it in this order and none failed; the create call comes
\* after a grant; a reconciliation in which an earlier sub-step failed has
\* not incremented the counter.
C10_CreateOrdering ==
    \A v \in VMs :
        /\ "gate" \in Range(trace[v]) =>
              /\ InOrder(trace[v], C10_Order)
              /\ failed[v] \in {"none", "create", "update"}
        /\ "create" \in Range(trace[v]) =>
              /\ granted[v]
              /\ IndexOf(trace[v], "gate") < IndexOf(trace[v], "create")
        /\ granted[v] => "gate" \in Range(trace[v])
        /\ failed[v] \in Failable => (~granted[v] /\ "gate" \notin Range(trace[v]))

\* A create call was issued after all sub-steps and succeeded.
C10_Witness ==
    \E v \in VMs :
        /\ "create" \in Range(trace[v])
        /\ phase[v] = "Created"
        /\ uniqueID[v] # ""

\* ------------------------------------------------------------------------
\* Properties of SpecOp
\* ------------------------------------------------------------------------

\* The last call of the current reconciliation.
lastCall == opLog[Len(opLog)]

IsColdMigration == operation.operationType = "ColdMigration"

IsImportByName == operation.operationType = "Import" /\ operation.entityName # ""

\* The calls of exportVM, RelocateVirtualMachine and importVM.
ExportCalls == {"exportVM.Get", "exportVM.Update", "exportVM.Delete"}

LaterCalls ==
    {"RelocateVirtualMachine", "importVM", "importVM.Create(Operation)",
     "importVM.Create(Plan)"}

\* C4: in exportVM the Delete is attempted only after the Update that writes
\* the export annotation has succeeded in the same reconciliation, so a
\* Delete is never pending or issued for a VM without the annotation; a
\* failed Update ends the reconciliation with the error and no Delete; after
\* (Update succeeds, Delete fails) the VM is present and annotated.
C4_AnnotateThenDelete ==
    /\ \A i \in 1..Len(opLog) :
          opLog[i].call = "exportVM.Delete" =>
             /\ i > 1
             /\ opLog[i - 1].call = "exportVM.Update"
             /\ opLog[i - 1].ok
             /\ k8sVM.exported
    /\ opPC = "exp_delete" => (k8sVM.exists /\ k8sVM.exported)
    /\ (Len(opLog) > 0 /\ lastCall.call = "exportVM.Update" /\ ~lastCall.ok) =>
          /\ opPC = "idle"
          /\ opResult = "err"
          /\ k8sVM = opStartVM
    /\ (Len(opLog) > 0 /\ lastCall.call = "exportVM.Delete" /\ ~lastCall.ok) =>
          /\ opPC = "idle"
          /\ opResult = "err"
          /\ k8sVM.exists
          /\ k8sVM.exported

\* The annotation was written by this reconciliation and the Delete failed:
\* the VM is present and annotated.
C4_Witness ==
    /\ Len(opLog) > 0
    /\ lastCall.call = "exportVM.Delete"
    /\ ~lastCall.ok
    /\ ~opStartVM.exported
    /\ k8sVM.exists
    /\ k8sVM.exported
    /\ opResult = "err"

\* C5: when the Get of the source VM or testTargetClusterConnection fails,
\* reconcileColdMigration returns the error, no call of export, relocate or
\* import is made, and the VM object is as it was when the reconciliation
\* started.
C5_AbortBeforeSideEffects ==
    /\ (/\ IsColdMigration
        /\ Len(opLog) > 0
        /\ lastCall.call \in {"reconcileColdMigration.Get", "testTargetClusterConnection"}
        /\ ~lastCall.ok) =>
          /\ opPC = "idle"
          /\ opResult = "err"
          /\ callsOf(opLog) \cap (ExportCalls \cup LaterCalls) = {}
          /\ k8sVM = opStartVM
    /\ opPC \in {"cm_get", "cm_conn"} =>
          /\ callsOf(opLog) \cap (ExportCalls \cup LaterCalls) = {}
          /\ k8sVM = opStartVM

\* The connectivity check failed for a VM that is present and not annotated.
C5_Witness ==
    /\ IsColdMigration
    /\ Len(opLog) > 0
    /\ lastCall.call = "testTargetClusterConnection"
    /\ ~lastCall.ok
    /\ opResult = "err"
    /\ k8sVM.exists
    /\ ~k8sVM.exported

\* The calls of one cold migration, in the order of the code.
C6_Order ==
    <<"Get(Operation)", "reconcileColdMigration.Get", "testTargetClusterConnection",
      "exportVM.Get", "exportVM.Update", "exportVM.Delete", "RelocateVirtualMachine",
      "importVM", "importVM.Create(Operation)", "importVM.Create(Plan)">>

C7_Original ==
    (IsImportByName /\ "Get(Operation)" \in okCallsOf(opLog)) =>
       /\ opStartVM.exists =>
             /\ "reconcileImportWithVMSpec.Create" \notin callsOf(opLog)
             /\ opPC = "idle" => opResult = "nil"
       /\ (~opStartVM.exists /\ opPC = "idle") =>
             (opResult = "nil" /\ k8sVM.exists)

\* C8: across the reconciliations of one Operation, as stated: the status
\* phase never changes backwards, and a call that returned success in an
\* earlier reconciliation is not made again by a later one.
C8_Original ==
    /\ operation.phase = ""
    /\ (callsOf(opLog) \ {"Get(Operation)"}) \cap succeeded = {}

\* ------------------------------------------------------------------------
\* Further properties of SpecVM
\* ------------------------------------------------------------------------

\* The components in the order C11 states them: Resource Binding Resolver
\* (vmCreateGetFolderAndRPMoIDs), Placement Resolver (vmCreateDoPlacement),
\* Config Spec Builder (vmCreateGenConfigSpec), Admission Gate, create call.
C11_StatedOrder == <<"folderAndRP", "placement", "genConfigSpec", "gate", "create">>

\* The same components in the order createVirtualMachine calls them.
C11_CodeOrder == <<"genConfigSpec", "placement", "folderAndRP", "gate", "create">>

\* C11 as stated: every reconciliation that issues the create call has
\* called the Resource Binding Resolver, then the Placement Resolver, then
\* the Config Spec Builder, then the Admission Gate, before it.
C11_Original ==
    \A v \in VMs :
        "create" \in Range(trace[v]) => InOrder(trace[v], C11_StatedOrder)

\* C11 amended: every reconciliation that issues the create call has called
\* the Config Spec Builder (inside vmCreateGetArgs), then the Placement
\* Resolver, then the Resource Binding Resolver, then the Admission Gate,
\* before it.
C11_CallOrder ==
    \A v \in VMs :
        "create" \in Range(trace[v]) => InOrder(trace[v], C11_CodeOrder)

\* A create call was issued with config spec generation ahead of placement
\* and placement ahead of resource binding.
C11_Witness ==
    \E v \in VMs :
        /\ "create" \in Range(trace[v])
        /\ IndexOf(trace[v], "genConfigSpec") < IndexOf(trace[v], "placement")
        /\ IndexOf(trace[v], "placement") < IndexOf(trace[v], "folderAndRP")

\* getVcClient and getVM of the current reconciliation of v returned without
\* error.
Looked(v) ==
    /\ "getVM" \in Range(trace[v])
    /\ ~(pc[v] = "idle" /\ failed[v] \in {"getVcClient", "getVM"})

\* getVM of the current reconciliation of v found a vCenter VM: the VM
\* exists and this reconciliation did not create it.
FoundAtStart(v) == Looked(v) /\ vcVM[v] /\ "create" \notin Range(trace[v])

\* The current reconciliation of v entered createVirtualMachine.
EnteredCreate(v) == "prereqs" \in Range(trace[v])

\* C12: a reconciliation whose getVM found no vCenter VM entered
\* createVirtualMachine and one that found a VM did not; with a VM found, no
\* create call is issued and the gate is neither attempted nor held; after a
\* successful create the reconciliation goes on to updateVirtualMachine
\* before it ends; after an error of the create path (a failed sub-step or a
\* failed create call) it ends without updateVirtualMachine.
C12_Dispatch ==
    \A v \in VMs :
        /\ Looked(v) => (EnteredCreate(v) <=> ~FoundAtStart(v))
        /\ EnteredCreate(v) => Looked(v)
        /\ FoundAtStart(v) =>
              /\ "gate" \notin Range(trace[v])
              /\ ~granted[v]
              /\ pc[v] \in {"update", "idle"}
        /\ ("create" \in Range(trace[v]) /\ failed[v] # "create") =>
              /\ vcVM[v]
              /\ pc[v] \in {"deferLock", "deferDec", "update", "idle"}
              /\ pc[v] = "idle" => "update" \in Range(trace[v])
        /\ failed[v] \in Failable \cup {"create"} =>
              /\ "update" \notin Range(trace[v])
              /\ pc[v] # "update"
              /\ pc[v] = "idle" => result[v] = "err"

\* One reconciliation found its VM and only updated it; another created its
\* VM and updated it in the same reconciliation.
C12_Witness ==
    \E v, w \in VMs :
        /\ pc[v] = "idle"
        /\ trace[v] = <<"getVcClient", "getVM", "update">>
        /\ pc[w] = "idle"
        /\ "create" \in Range(trace[w])
        /\ "update" \in Range(trace[w])

\* The positions at which a reconciliation holds createCountLock: between
\* Lock and Unlock in vmCreateConcurrentAllowed and in decrementFn.
LockedPositions == {"gateCheck", "deferDec"}

\* C17: createCountLock is held by a reconciliation only while it compares
\* and increments, or decrements, the counter, and never while it is in the
\* create call; so while one reconciliation is in the create call, another
\* one waiting for the mutex either can take it now or waits for a holder
\* that is in one of those two short sections and can leave it at once, and
\* one that has the mutex can complete its check (grant or denial) at once.
C17_LockNotHeldAcrossCreate ==
    /\ \A v \in VMs :
          /\ createCountLock = v => pc[v] \in LockedPositions
          /\ pc[v] \in LockedPositions => createCountLock = v
          /\ pc[v] = "create" => createCountLock # v
    /\ \A v, w \in VMs :
          (pc[v] = "create" /\ w # v) =>
             /\ pc[w] = "gateLock" =>
                   \/ ENABLED gateLock(w)
                   \/ \E u \in VMs \ {v, w} :
                         /\ createCountLock = u
                         /\ ENABLED gateCheck(u) \/ ENABLED decrementFn(u)
             /\ pc[w] = "gateCheck" => ENABLED gateCheck(w)

\* While one reconciliation is in the create call under a limit of 1,
\* another one's attempt has completed with a denial.
C17_Witness ==
    \E v, w \in VMs :
        /\ v # w
        /\ pc[v] = "create"
        /\ maxDeployThreads = 1
        /\ Denied(w)
        /\ createCountLock = 0

\* C38: with a limit of zero or less, every attempt at the gate is denied
\* although the counter is 0: no reconciliation is granted, none reaches
\* the create call, no vCenter VM comes to exist by any step, and each
\* denied reconciliation returns nil, however often the reconciliations are
\* repeated.
C38_NonPositiveLimitStarves ==
    /\ [](maxDeployThreads <= 0 =>
            /\ concurrentCreateCount = 0
            /\ \A v \in VMs :
                  /\ ~granted[v]
                  /\ "create" \notin Range(trace[v])
                  /\ pc[v] \notin {"create", "deferLock", "deferDec"}
                  /\ pc[v] = "gateCheck" =>
                        gateDenied(concurrentCreateCount, maxDeployThreads)
                  /\ Denied(v) => (result[v] = "nil" /\ ~vcVM[v]))
    /\ [][maxDeployThreads <= 0 => vcVM' = vcVM]_vars

\* Under a limit of 0 every reconciliation of an absent VM was denied with
\* the counter at 0 and returned nil.
C38_Witness ==
    /\ maxDeployThreads = 0
    /\ concurrentCreateCount = 0
    /\ \A v \in VMs : Denied(v) /\ result[v] = "nil" /\ ~vcVM[v]

\* ------------------------------------------------------------------------
\* Further properties of SpecOp
\* ------------------------------------------------------------------------

\* The current reconciliation read the Operation object.
OperationRead == "Get(Operation)" \in okCallsOf(opLog)

IsImportBySelector == operation.operationType = "Import" /\ operation.entityName = ""

\* The selector names a resource pool.
HasResourcePool(sel) == sel.present /\ sel.resourcePool # ""

\* The errors of resolveEntities and resolveEntitiesBySelector.
UnsupportedErrors ==
    {"unsupported entity reference", "unsupported entity selector NameRegexPattern",
     "unsupported entity selector Selector", "unsupported entity selector"}

\* The provider calls of the selector-based import.
LookupCalls == {"GetVsphereVMsByResPoolName", "GetFolderNameBySupervisorNamespaceName"}

\* C13: a finished Import without entity name has called
\* GetVsphereVMsByResPoolName exactly when its selector names a resource
\* pool; with no selector, or a selector that has only a name pattern, only
\* a label selector or nothing, it returned one of the unsupported errors
\* with no provider call (entity or folder lookup) made; and the step that
\* returns that error changes no object.
C13_UnsupportedSelectorFailsFast ==
    /\ [](IsImportBySelector /\ OperationRead /\ opPC = "idle" =>
            IF HasResourcePool(operation.selector)
            THEN opLog[2].call = "GetVsphereVMsByResPoolName"
            ELSE /\ Len(opLog) = 2
                 /\ lastCall.call = "resolveEntities"
                 /\ lastCall.err \in UnsupportedErrors
                 /\ opResult = "err"
                 /\ callsOf(opLog) \cap LookupCalls = {})
    /\ [][(opPC = "import_entities" /\ ~HasResourcePool(operation.selector)) =>
            UNCHANGED <<operation, opExists, k8sVM, relocated, remote, varsVM>>]_vars

\* An Import whose selector has only a name pattern returned the
\* unsupported error.
C13_Witness ==
    /\ IsImportBySelector
    /\ operation.selector.present
    /\ operation.selector.resourcePool = ""
    /\ operation.selector.nameRegexPattern # ""
    /\ opPC = "idle"
    /\ opResult = "err"
    /\ Len(opLog) = 2
    /\ lastCall.err = "unsupported entity selector NameRegexPattern"

\* C14: once the Operation is read, a LiveMigration request, and a request
\* whose type is none of the four declared ones, returns nil in the same
\* step, whatever its entity name, selector and network interfaces: no call
\* other than the read of the Operation is made, and the VirtualMachine
\* object, the relocation state and the remote objects are as they were.
C14_LiveMigrationNoOp ==
    operation.operationType \in {"LiveMigration", "Other"} =>
       /\ opPC = "idle"
       /\ callsOf(opLog) \subseteq {"Get(Operation)"}
       /\ OperationRead => opResult = "nil"
       /\ k8sVM = opStartVM
       /\ ~relocated
       /\ remote = [operation |-> FALSE, plan |-> FALSE]

\* A LiveMigration naming an existing VM was reconciled and returned nil.
C14_Witness ==
    /\ operation.operationType = "LiveMigration"
    /\ operation.entityName = "vm-1"
    /\ k8sVM.exists
    /\ OperationRead
    /\ opResult = "nil"

\* C15: a Reconcile of the Operation controller, and of the Plan
\* controller, whose Get reports that the object does not exist returns nil
\* and makes no further call; a Get that fails in any other way makes
\* Reconcile return the error, also with no further call; and a Reconcile
\* for an object that does not exist changes no object.
C15_NotFoundIsBenign ==
    /\ [](/\ (Len(opLog) > 0 /\ opLog[1].err = "notFound") =>
               (opPC = "idle" /\ opResult = "nil" /\ Len(opLog) = 1 /\ k8sVM = opStartVM)
          /\ (Len(opLog) > 0 /\ opLog[1].err = "error") =>
               (opPC = "idle" /\ opResult = "err" /\ Len(opLog) = 1 /\ k8sVM = opStartVM)
          /\ plan.get = "notFound" => plan.result = "nil"
          /\ plan.get = "error" => plan.result = "err")
    /\ [][/\ (~opExists /\ opLog' # opLog) =>
               (opLog'[1].err \in {"notFound", "error"}
                /\ UNCHANGED <<operation, opExists, k8sVM, relocated, remote, plan>>)
          /\ (~plan.exists /\ plan' # plan) =>
               (plan'.get \in {"notFound", "error"} /\ ~plan'.exists
                /\ UNCHANGED <<operation, opExists, k8sVM, relocated, remote>>)]_vars

\* Both controllers reconciled a deleted object and returned nil.
C15_Witness ==
    /\ ~opExists
    /\ Len(opLog) = 1
    /\ opLog[1].err = "notFound"
    /\ opResult = "nil"
    /\ ~plan.exists
    /\ plan.get = "notFound"
    /\ plan.result = "nil"

\* The VMs for which the current reconciliation built an EntityReference.
ResolvedVMs == {vm \in {"vm-a", "vm-b"} : EntityReference(vm) \in callsOf(opLog)}

\* The calls that would import a VM into the destination folder: a call of
\* the reconciliation that names the VM and is neither the lookup of the
\* pool's VMs nor the construction of its EntityReference.
ImportCalls(vm) ==
    {c \in callsOf(opLog) : c \in {"import " \o vm, "importVM " \o vm, "Create " \o vm}}

\* C28 as stated: when the reconciliation of an Import without entity name
\* whose selector names a resource pool returned success, every VM resolved
\* from the pool was imported by a call of that reconciliation.
C28_Original ==
    (/\ OperationRead
     /\ IsImportBySelector
     /\ HasResourcePool(operation.selector)
     /\ opPC = "idle"
     /\ opResult = "nil") =>
       \A vm \in ResolvedVMs : ImportCalls(vm) # {}

\* The positions of importVM in a reconciliation.
ImportPositions == {"imp_vm", "imp_vm_op", "imp_vm_plan"}

\* RelocateVirtualMachine returned nil in the current reconciliation and no
\* relocate task has moved the vCenter VM: it found no vCenter VM.
RelocateSkipped ==
    /\ IsColdMigration
    /\ "RelocateVirtualMachine" \in okCallsOf(opLog)
    /\ ~relocated

\* C32: when RelocateVirtualMachine returns nil for a VM it did not find in
\* vCenter, so that nothing is relocated, reconcileColdMigration goes on to
\* importVM; a cold migration that returned nil has submitted the Import
\* on the destination whether or not the VM was relocated.
C32_ImportWithoutRelocation ==
    /\ RelocateSkipped => (opPC \in ImportPositions \/ "importVM" \in callsOf(opLog))
    /\ (IsColdMigration /\ opPC = "idle" /\ opResult = "nil" /\ Len(opLog) > 1) =>
          (remote.operation /\ remote.plan)

\* A cold migration returned nil with the Import submitted and the VM
\* object exported, and the vCenter VM was never relocated.
C32_Witness ==
    /\ RelocateSkipped
    /\ opPC = "idle"
    /\ opResult = "nil"
    /\ remote.operation
    /\ remote.plan
    /\ ~k8sVM.exists

\* An earlier reconciliation of the cold migration exported the VM: its
\* Update and its Delete succeeded.
ExportedEarlier ==
    /\ IsColdMigration
    /\ {"exportVM.Update", "exportVM.Delete"} \subseteq succeeded

\* C33: once a reconciliation of a ColdMigration request has annotated and
\* deleted the source VM object, the object stays absent and every later
\* reconciliation of the request that reads the Operation fails at the Get
\* of the source VM: it returns the error and calls neither the
\* connectivity check, exportVM, RelocateVirtualMachine nor importVM.
C33_NoResumeAfterExport ==
    ExportedEarlier =>
       /\ ~k8sVM.exists
       /\ callsOf(opLog) \subseteq {"Get(Operation)", "reconcileColdMigration.Get"}
       /\ "reconcileColdMigration.Get" \notin okCallsOf(opLog)
       /\ opPC \in {"idle", "cm_get"}
       /\ (opPC = "idle" /\ OperationRead) =>
             (opResult = "err" /\ lastCall.call = "reconcileColdMigration.Get")

\* The first reconciliation exported the VM and failed in
\* RelocateVirtualMachine; the second and the third failed at the Get of
\* the source VM.
C33_Witness ==
    /\ ExportedEarlier
    /\ "RelocateVirtualMachine" \notin succeeded
    /\ "reconcileColdMigration.Get" \in succeeded
    /\ reconciles = MaxReconciles
    /\ opPC = "idle"
    /\ opResult = "err"
    /\ lastCall.call = "reconcileColdMigration.Get"
    /\ ~relocated
    /\ ~remote.operation

IsExport == operation.operationType = "Export"

\* The current reconciliation of an Export read the Operation and the
\* VirtualMachine it names did not exist when it started.
ExportOfAbsentVM == IsExport /\ OperationRead /\ ~opStartVM.exists

\* C34: the reconciliation of an Export whose VirtualMachine does not exist
\* fails in the Get of exportVM: it returns the error, calls neither Update
\* nor Delete and leaves the object as it was; and after a reconciliation
\* whose Delete succeeded, every later reconciliation of the same Export is
\* such a one and returns an error, not success.
C34_ExportOfAbsentVMFails ==
    /\ ExportOfAbsentVM =>
          /\ callsOf(opLog) \subseteq {"Get(Operation)", "exportVM.Get"}
          /\ "exportVM.Get" \notin okCallsOf(opLog)
          /\ k8sVM = opStartVM
          /\ opPC \in {"idle", "exp_get"}
          /\ opPC = "idle" => (opResult = "err" /\ lastCall.call = "exportVM.Get")
    /\ (IsExport /\ "exportVM.Delete" \in succeeded) =>
          /\ ~k8sVM.exists
          /\ OperationRead => ExportOfAbsentVM

\* An Export succeeded once, and its next reconciliation returned the error
\* of the Get.
C34_Witness ==
    /\ IsExport
    /\ "exportVM.Delete" \in succeeded
    /\ OperationRead
    /\ opPC = "idle"
    /\ opResult = "err"
    /\ lastCall.call = "exportVM.Get"
    /\ k8sVM.exported

\* The calls of the current reconciliation that returned an error.
failedCallsOf(log) == callsOf(log) \ okCallsOf(log)

\* C35: importVM creates the Operation "import" on the destination before
\* the Plan "importvm-plan", and the Plan only after that Create succeeded;
\* when the Create of the Plan fails the Operation stays on the
\* destination; and when the destination already holds an Operation
\* "import", the Create of the Operation fails and the cold migration
\* returns the error with its VM object already exported, the Plan not
\* attempted and the destination unchanged.
C35_ImportSubmissionOrder ==
    /\ [](IsColdMigration =>
            /\ "importVM.Create(Plan)" \in callsOf(opLog) =>
                  /\ "importVM.Create(Operation)" \in okCallsOf(opLog)
                  /\ IndexOf(opLog, entry("importVM.Create(Operation)", TRUE, ""))
                        < Len(opLog)
                  /\ lastCall.call = "importVM.Create(Plan)"
            /\ opPC = "imp_vm_plan" => remote.operation
            /\ "importVM.Create(Plan)" \in failedCallsOf(opLog) =>
                  (remote.operation /\ opPC = "idle" /\ opResult = "err")
            /\ "importVM.Create(Operation)" \in failedCallsOf(opLog) =>
                  /\ opPC = "idle"
                  /\ opResult = "err"
                  /\ "importVM.Create(Plan)" \notin callsOf(opLog)
                  /\ ~k8sVM.exists
                  /\ k8sVM.exported)
    /\ [][(opPC = "imp_vm_op" /\ remote.operation /\ opLog' # opLog) =>
            /\ opResult' = "err"
            /\ opPC' = "idle"
            /\ remote' = remote]_vars

\* A cold migration to a destination that still held an Operation "import"
\* exported and relocated its VM and then failed in the Create of the
\* Operation.
C35_Witness ==
    /\ IsColdMigration
    /\ Len(opLog) > 0
    /\ lastCall.call = "importVM.Create(Operation)"
    /\ ~lastCall.ok
    /\ opResult = "err"
    /\ remote.operation
    /\ relocated
    /\ opStartVM.exists
    /\ ~k8sVM.exists

\* C36 as stated: every reconciliation of a ColdMigration request,
\* whatever the number of network interfaces of its embedded VM spec, ends
\* by returning nil or an error; importVM does not fault.
C36_Original == IsColdMigration => opResult \in {"none", "nil", "err"}

BindStep == bindErr = "pending" /\ bindErr' # "pending"

\* The errors with which the child pool lookup ends the resolver.
ChildRPErrors ==
    {"FindChild failed", "child ResourcePool not found", "child is not a ResourcePool"}

\* The errors with which the child folder lookup ends the resolver.
ChildFolderErrors ==
    {"FindChild of Folder failed", "child Folder not found", "child is not a Folder"}

\* The lookup of the namespace/zone root pool and folder with zone label z.
RootLookup(z) == "GetNamespaceFolderAndRPMoID:" \o z

\* C19: with a pool id already set by placement the resolver leaves it as it
\* is, looks up the namespace folder first and makes neither the
\* namespace/zone root lookup nor the child pool lookup; with no pool id it
\* first looks up root pool and folder with the VM's zone label, then the
\* child pool when the policy names one, and on success the pool id is the
\* child's when one is named and the root's otherwise; in both branches the
\* child folder is looked up exactly when the policy names one and the pool
\* part did not fail, and on success the folder id is the child's when one
\* is named and the namespace's otherwise.
C19_BindingBranch ==
    [][BindStep =>
         /\ createArgs.ResourcePoolMoID # "" =>
               /\ createArgs'.ResourcePoolMoID = createArgs.ResourcePoolMoID
               /\ bindLog'[1] = "GetNamespaceFolderMoID"
               /\ RootLookup(zoneLabel) \notin Range(bindLog')
               /\ "GetChildResourcePool" \notin Range(bindLog')
         /\ createArgs.ResourcePoolMoID = "" =>
               /\ bindLog'[1] = RootLookup(zoneLabel)
               /\ "GetNamespaceFolderMoID" \notin Range(bindLog')
               /\ "GetChildResourcePool" \in Range(bindLog') =>
                     (createArgs.ChildResourcePoolName # "" /\ bindLog'[2] = "GetChildResourcePool")
               /\ (createArgs.ChildResourcePoolName # "" /\ bindErr' # "lookup failed") =>
                     "GetChildResourcePool" \in Range(bindLog')
               /\ bindErr' = "nil" =>
                     createArgs'.ResourcePoolMoID =
                        IF createArgs.ChildResourcePoolName # "" THEN "child-rp" ELSE "root-rp"
         /\ "GetChildFolder" \in Range(bindLog') =>
               (createArgs.ChildFolderName # "" /\ bindLog'[Len(bindLog')] = "GetChildFolder")
         /\ (createArgs.ChildFolderName # ""
             /\ bindErr' \notin ChildRPErrors \cup {"lookup failed"}) =>
               "GetChildFolder" \in Range(bindLog')
         /\ bindErr' = "nil" =>
               createArgs'.FolderMoID =
                  IF createArgs.ChildFolderName # "" THEN "child-folder" ELSE "ns-folder"
    ]_vars

\* With a pool from placement and a policy that names a child pool and a
\* child folder, only the namespace folder and the child folder were looked
\* up and the placed pool was kept.
C19_Witness ==
    /\ bindErr = "nil"
    /\ createArgs.ResourcePoolMoID = "placed-rp"
    /\ createArgs.ChildResourcePoolName = "child-rp"
    /\ createArgs.FolderMoID = "child-folder"
    /\ bindLog = <<"GetNamespaceFolderMoID", "GetChildFolder">>

\* C20 as stated: whenever the policy names a child pool, or a child folder,
\* that is absent or of the wrong kind, the resolver returns an error and
\* createVirtualMachine returns it; nothing is created.
C20_Original ==
    [][BindStep =>
         /\ (createArgs.ChildResourcePoolName # "" /\ inventory.childRP # "match") =>
               (bindErr' # "nil" /\ bindNext' = "return err")
         /\ (createArgs.ChildFolderName # "" /\ inventory.childFolder # "match") =>
               (bindErr' # "nil" /\ bindNext' = "return err")
         /\ inventory' = inventory
    ]_vars

\* C20 amended: whenever the resolver looks up a child pool (no pool id from
\* placement, policy names a child pool) or a child folder (policy names
\* one) and the child is absent or of the wrong kind, the resolver returns
\* an error, createVirtualMachine returns it without going on to
\* vmCreateIsReady, the gate or the create call, createArgs keeps the pool
\* and folder ids as they were for a failed pool lookup, and no pool or
\* folder is created; with a pool id from placement the child pool is not
\* looked up and its absence is no error of the resolver.
C20_MissingChildIsFatal ==
    [][BindStep =>
         /\ (createArgs.ResourcePoolMoID = "" /\ createArgs.ChildResourcePoolName # ""
             /\ inventory.childRP # "match" /\ bindErr' # "lookup failed") =>
               /\ bindErr' \in ChildRPErrors
               /\ bindNext' = "return err"
               /\ createArgs' = createArgs
         /\ (createArgs.ChildFolderName # "" /\ inventory.childFolder # "match"
             /\ "GetChildFolder" \in Range(bindLog')) =>
               /\ bindErr' \in ChildFolderErrors
               /\ bindNext' = "return err"
         /\ (createArgs.ResourcePoolMoID # "" /\ createArgs.ChildFolderName = ""
             /\ "GetNamespaceFolderMoID" \in Range(bindLog') /\ bindErr' # "lookup failed") =>
               (bindErr' = "nil" /\ bindNext' = "vmCreateIsReady")
         /\ bindErr' # "nil" => bindNext' = "return err"
         /\ inventory' = inventory
         /\ UNCHANGED varsVM
    ]_vars

\* The policy names a child pool that is not under the root pool, no pool
\* came from placement, and the resolver returned the error.
C20_Witness ==
    /\ createArgs.ResourcePoolMoID = ""
    /\ createArgs.ChildResourcePoolName = "child-rp"
    /\ inventory.childRP = "absent"
    /\ bindErr = "child ResourcePool not found"
    /\ bindNext = "return err"

\* ------------------------------------------------------------------------
\* Properties of SpecGen
\* ------------------------------------------------------------------------

\* All entries of the sequence s are the same.
AllSame(s) == \A i, j \in DOMAIN s : s[i] = s[j]

C25_ImageOnlyOnFirstBoot ==
    \A i \in DOMAIN updOut :
       /\ "GetVMImageAndContentLibraryUUID" \in Range(updOut[i].log)
             <=> ~genArgs.FirstBootDone
       /\ genArgs.FirstBootDone =>
             /\ updOut[i].err = ""
             /\ updOut[i].ConfigSpec.Firmware = ""
             /\ updOut[i].ExtraConfig = "unset"
       /\ (~genArgs.FirstBootDone /\ genArgs.ImageFetch = "err") =>
             (updOut[i].err # "" /\ "CreateConfigSpec" \notin Range(updOut[i].log))
       /\ (~genArgs.FirstBootDone /\ genArgs.ImageFetch = "ok") =>
             /\ updOut[i].err = ""
             /\ updOut[i].ConfigSpec.Firmware = genArgs.Firmware
             /\ updOut[i].ExtraConfig = "rendered"

\* An update of a VM with the FirstBootDoneAnnotation whose image has
\* firmware "efi" and cannot be fetched returned a ConfigSpec.
C25_Witness ==
    /\ Len(updOut) = 1
    /\ genArgs.FirstBootDone
    /\ genArgs.ImageFetch = "err"
    /\ genArgs.Firmware = "efi"
    /\ updOut[1].err = ""
    /\ updOut[1].ConfigSpec.Firmware = ""

\* ------------------------------------------------------------------------
\* Properties of SpecDisk
\* ------------------------------------------------------------------------

\* The device changes emitted for disk d.
ChangesOf(d) == {i \in DOMAIN diskChanges : diskChanges[i].key = d}

\* C18: after the resize, a validation error is returned exactly when some
\* disk's requested capacity is smaller than its current one, and then no
\* device change is emitted; otherwise exactly one edit, with the requested
\* capacity, is emitted for each disk whose requested capacity strictly
\* exceeds its current one and none for any other disk.
C18_ResizeOneDirectional ==
    diskErr # "pending" =>
       /\ diskErr = "cannot shrink disk" <=> (\E d \in Disks : volumes[d] < disks[d])
       /\ diskErr \in {"nil", "cannot shrink disk"}
       /\ diskErr # "nil" => diskChanges = <<>>
       /\ diskErr = "nil" =>
             \A d \in Disks :
                /\ Cardinality(ChangesOf(d)) = IF volumes[d] > disks[d] THEN 1 ELSE 0
                /\ \A i \in ChangesOf(d) :
                      diskChanges[i] = edit(d, volumes[d])
       /\ \A i \in DOMAIN diskChanges : diskChanges[i].key \in Disks

\* One disk is asked to grow and the other to shrink: the validation error
\* is returned and nothing is emitted.
C18_Witness ==
    /\ diskErr = "cannot shrink disk"
    /\ diskChanges = <<>>
    /\ volumes[1] > disks[1]
    /\ volumes[2] < disks[2]

\* ------------------------------------------------------------------------
\* Properties of SpecCreate
\* ------------------------------------------------------------------------

\* The call was made by the current reconciliation.
crCalled(call) == call \in Range(crLog)

\* vmCreateConcurrentAllowed was called.
GateCalled ==
    \E outcome \in {"denied", "granted"} : crCalled("vmCreateConcurrentAllowed:" \o outcome)

\* The errors vmCreateDoPlacement returns.
PlacementErrors ==
    {"placement failed", "placement result missing host required for instance storage",
     "GetESXHostFQDN failed"}

\* vmCreateDoPlacement was called and returned nil.
PlacementSucceeded == crPlacement.called /\ crErr \notin PlacementErrors

MissingHostError == "placement result missing host required for instance storage"

\* C21: when placement.Placement returned an instance-storage placement
\* without a host, vmCreateDoPlacement returned the missing-host error,
\* createVirtualMachine returned it, the VM's selected-node annotations and
\* zone label are as they were when the reconciliation started, and neither
\* the gate nor the create call was reached.
C21_NoHostIsFatal ==
    (/\ crPlacement.called
     /\ crPlacement.err = ""
     /\ crPlacement.InstanceStoragePlacement
     /\ crPlacement.HostMoRef = "nil") =>
       /\ crErr = MissingHostError
       /\ crPC = "done"
       /\ crVM.SelectedNodeMOID = crStart.SelectedNodeMOID
       /\ crVM.SelectedNode = crStart.SelectedNode
       /\ crVM.Zone = crStart.Zone
       /\ crLog[Len(crLog)] = "placement.Placement"
       /\ ~GateCalled
       /\ ~crCalled("CreateVirtualMachine")

\* An instance-storage zone placement without a host ended the
\* reconciliation of a VM with another zone label.
C21_Witness ==
    /\ crPlacement.called
    /\ crPlacement.err = ""
    /\ crPlacement.InstanceStoragePlacement
    /\ crPlacement.ZonePlacement
    /\ crPlacement.HostMoRef = "nil"
    /\ crErr = MissingHostError
    /\ crVM.Zone = "zone-old"

\* The lookups of the namespace/zone root pool and folder.
RootLookups == {RootLookup(z) : z \in {"", "zone-old", "zone-a"}}

\* C22: after vmCreateDoPlacement returned nil the selected-node annotations
\* are the host's id and FQDN when the result was an instance-storage
\* placement (it then has a host) and otherwise as they were at the start;
\* the zone label is the result's zone when it was a zone placement and
\* otherwise as it was at the start; and the zone passed to the
\* namespace/zone lookup of the resource binding step, which is made only
\* when placement selected no pool, is that zone label.
C22_PlacementEffects ==
    PlacementSucceeded =>
       /\ IF crPlacement.InstanceStoragePlacement
          THEN /\ crPlacement.HostMoRef # "nil"
               /\ crVM.SelectedNodeMOID = crPlacement.HostMoRef
               /\ crVM.SelectedNode = "host-1.fqdn"
               /\ crCalled("GetESXHostFQDN")
          ELSE /\ crVM.SelectedNodeMOID = crStart.SelectedNodeMOID
               /\ crVM.SelectedNode = crStart.SelectedNode
               /\ ~crCalled("GetESXHostFQDN")
       /\ crVM.Zone = IF crPlacement.ZonePlacement THEN crPlacement.ZoneName
                      ELSE crStart.Zone
       /\ \A i \in DOMAIN crLog :
             crLog[i] \in RootLookups =>
                (crLog[i] = RootLookup(crVM.Zone) /\ crPlacement.PoolMoRef = "")
       /\ (crPC \notin {"vmCreateDoPlacement", "vmCreateGetFolderAndRPMoIDs"}
           /\ crPlacement.PoolMoRef = "") =>
             crCalled(RootLookup(crVM.Zone))

\* An instance-storage zone placement with a host and without a pool: the
\* annotations and the label are written over the old ones and the binding
\* step looked up the new zone.
C22_Witness ==
    /\ PlacementSucceeded
    /\ crPlacement.InstanceStoragePlacement
    /\ crPlacement.ZonePlacement
    /\ crStart.Zone = "zone-old"
    /\ crStart.SelectedNodeMOID = "host-0"
    /\ crVM.SelectedNodeMOID = "host-1"
    /\ crCalled(RootLookup("zone-a"))
    /\ crCalled("CreateVirtualMachine")

\* The errors vmCreateIsReady returns.
ReadyErrors ==
    {"cannot create VirtualMachine when its resource policy is being deleted",
     "GetResourcePoolOwnerMoRef failed", "doClusterModulesExist failed",
     "VirtualMachineSetResourcePolicy cluster modules is not ready",
     "instance storage PVCs are not bound yet"}

\* C23: when vmCreateIsReady ran while the resource policy is being deleted,
\* while the policy's cluster modules do not exist, or while the VM has
\* instance storage and no PVCs-bound annotation, createVirtualMachine
\* returned an error of vmCreateIsReady (the deletion error and the
\* cluster-modules error in the first two cases), vmCreateConcurrentAllowed
\* was not called and no create call was made.
C23_ReadinessBlocksCreate ==
    (/\ crCalled("vmCreateIsReady")
     /\ \/ crArgs.ResourcePolicy = "deleting"
        \/ crCalled("doClusterModulesExist:missing")
        \/ (crArgs.HasInstanceStorage /\ ~crVM.PVCsBound)) =>
       /\ crErr \in ReadyErrors
       /\ crPC = "done"
       /\ crArgs.ResourcePolicy = "deleting" =>
             crErr = "cannot create VirtualMachine when its resource policy is being deleted"
       /\ crCalled("doClusterModulesExist:missing") =>
             crErr = "VirtualMachineSetResourcePolicy cluster modules is not ready"
       /\ (crArgs.ResourcePolicy = "nil" \/ crCalled("doClusterModulesExist:exist")) =>
             crErr = "instance storage PVCs are not bound yet"
       /\ ~GateCalled
       /\ ~crCalled("CreateVirtualMachine")

\* Placement and resource binding succeeded for a VM whose resource policy is
\* being deleted, and the readiness check ended the reconciliation.
C23_Witness ==
    /\ crCalled("vmCreateIsReady")
    /\ crArgs.ResourcePolicy = "deleting"
    /\ crArgs.FolderMoID = "child-folder"
    /\ crErr = "cannot create VirtualMachine when its resource policy is being deleted"
    /\ crPC = "done"

\* C24: when vmCreateValidateArgs ran with a storage class required and the
\* VM naming none, or required and no storage profile id resolved, or not
\* required, none named and no default datastore configured, it returned the
\* error that belongs to that case, which depends on the configuration, the
\* VM's storage class and the resolved profile id alone;
\* createVirtualMachine returned it after vmCreateGetArgs with the VM object
\* as it was at the start (the phase is not assigned), and placement, the
\* gate and the create call were not reached.
C24_ValidationIsFatal ==
    (/\ crCalled("vmCreateValidateArgs")
     /\ \/ (crCfg.StorageClassRequired
            /\ (crStart.StorageClass = "" \/ crDesired.StorageProfileID = ""))
        \/ (~crCfg.StorageClassRequired /\ crStart.StorageClass = ""
            /\ crCfg.Datastore = "")) =>
       /\ crErr =
             IF ~crCfg.StorageClassRequired THEN "no Datastore provided in configuration"
             ELSE IF crStart.StorageClass = ""
             THEN "StorageClass is required but not specified"
             ELSE "no StorageProfile found for StorageClass"
       /\ crPC = "done"
       /\ crLog = <<"vmCreateGetArgs", "vmCreateValidateArgs">>
       /\ crVM = crStart
       /\ ~crPlacement.called

\* A storage class is required, the VM names none, and the reconciliation of
\* a VM that never was in phase Creating ended in the validation.
C24_Witness ==
    /\ crCfg.StorageClassRequired
    /\ crStart.StorageClass = ""
    /\ crErr = "StorageClass is required but not specified"
    /\ crVM.Phase = ""
    /\ crPC = "done"

\* The errors vmCreateGetArgs returns.
GetArgsErrors ==
    {"vmCreateGetPrereqs failed", "vmCreateGetStoragePrereqs failed",
     "StorageClass is required but not specified",
     "no StorageProfile found for StorageClass",
     "no Datastore provided in configuration", "failed to find Datastore"}

\* vmCreateGetArgs was called and returned nil.
GetArgsSucceeded == crCalled("vmCreateGetArgs") /\ crErr \notin GetArgsErrors

\* ses.CreateVirtualMachine was called and returned nil.
CreateSucceeded == crCalled("CreateVirtualMachine") /\ crErr = ""

\* C26: the phase was assigned in this reconciliation exactly when
\* vmCreateGetArgs returned nil: then it is Creating, whatever failed or
\* denied afterwards, until the create call succeeds, and otherwise it is as
\* it was at the start; the phase is Created and the unique id set exactly
\* when the create call returned nil; after a failed create call the phase
\* is Creating and the unique id empty.
C26_PhaseTransitions ==
    /\ crVM.Phase = IF CreateSucceeded THEN "Created"
                    ELSE IF GetArgsSucceeded THEN "Creating"
                    ELSE crStart.Phase
    /\ crVM.UniqueID = IF CreateSucceeded THEN "vm-moid" ELSE ""
    /\ crErr = "CreateVirtualMachine failed" =>
          (crVM.Phase = "Creating" /\ crVM.UniqueID = "")

\* The create call of a VM that was in no phase failed: the phase is
\* Creating and there is no unique id.
C26_Witness ==
    /\ crStart.Phase = ""
    /\ crCalled("CreateVirtualMachine")
    /\ crErr = "CreateVirtualMachine failed"
    /\ crVM.Phase = "Creating"
    /\ crVM.UniqueID = ""

\* ------------------------------------------------------------------------
\* Properties of SpecCall
\* ------------------------------------------------------------------------

\* RelocateVirtualMachine returned after it handed a relocate spec to
\* vCenter.
RelocateIssued ==
    /\ callIn.fn = "RelocateVirtualMachine"
    /\ callOut.done
    /\ callOut.value # <<>>

\* C27 as stated: the relocate spec handed to vCenter carries exactly one
\* device change, an edit of the VM's first vmxnet3 device whose backing
\* names the network of the request's relocateSpec.vmNetworkName, together
\* with the host, pool, datastore and folder found under the request's
\* names.
C27_Original ==
    RelocateIssued =>
       /\ Len(callOut.value[1].DeviceChange) = 1
       /\ callOut.value[1].DeviceChange[1].Operation = "edit"
       /\ callOut.value[1].DeviceChange[1].Device
            = GetNetworkFromVM(callIn.devices, FALSE).nic[1]
       /\ callOut.value[1].DeviceChange[1].Backing.DeviceName
            = callIn.relocateSpec.vmNetworkName
       /\ callOut.value[1].Host = FinderRef("HostSystem", callIn.relocateSpec.hostIp)
       /\ callOut.value[1].Pool
            = FinderRef("ResourcePool", callIn.relocateSpec.resourcePoolName)
       /\ callOut.value[1].Datastore
            = FinderRef("Datastore", callIn.relocateSpec.datastoreName)
       /\ callOut.value[1].Folder = FinderRef("Folder", callIn.relocateSpec.folderName)

\* createClientsFromConfig returned.
ClientsCalled == callIn.fn = "createClientsFromConfig" /\ callOut.done

\* C29 as stated: when the destination location and its credential exist
\* (and the client library accepts the configuration) the call returns
\* clients built from the location's host and port and the credential's
\* certificate and key; when either is missing it returns an error and no
\* client; and it reads nothing but the location and its credential.
C29_Original ==
    ClientsCalled =>
       /\ (callIn.location /\ callIn.identity # <<>> /\ callIn.build = "ok") =>
             (callOut.err = Nil /\ callOut.value = <<clientsOf(callIn)>>)
       /\ (~callIn.location \/ callIn.identity = <<>>) =>
             (callOut.err # Nil /\ callOut.value = <<>>)
       /\ Range(callLog) \subseteq {"Get SupervisorLocation", "Get Secret identity"}

\* The calls that start a vCenter task and those that wait for it.
TaskStarts == {"vcVM.Relocate", "vcVM.Reconfigure", "childRP.Destroy"}

TaskWaits == {"task.Wait", "task.WaitForResult"}

\* One of the three functions returned after it started a task or tried to.
TaskCalled ==
    /\ callIn.fn \in {"RelocateVirtualMachine", "ReconfigureVirtualMachine",
                      "DeleteChildResourcePool"}
    /\ callOut.done
    /\ Range(callLog) \cap TaskStarts # {}

\* An error that carries the localized message of the task's fault behind
\* parts that name the operation and its target.
WrappedTaskError(err) ==
    /\ Len(err) >= 3
    /\ err[Len(err)] = LocalizedMessage

\* C30 as stated: when the task of a relocate, reconfigure or resource-pool
\* destroy fails with a fault, the error returned carries the fault's
\* localized message wrapped with the operation and its target; when the
\* task cannot be started the start error is returned and nothing waits;
\* and nil is returned only after the wait returned without error.
C30_Original ==
    TaskCalled =>
       /\ callIn.task = "waitErr" => WrappedTaskError(callOut.err)
       /\ callIn.task = "startErr" =>
             (callOut.err = StartError /\ Range(callLog) \cap TaskWaits = {})
       /\ callOut.err = Nil =>
             (callIn.task = "ok" /\ Range(callLog) \cap TaskWaits # {})

\* RelocateVirtualMachine returned for a VM that exists in vCenter.
RelocateReturned ==
    /\ callIn.fn = "RelocateVirtualMachine"
    /\ callOut.done
    /\ callIn.vm = "present"

\* The errors of the destination lookups and of the NIC lookup that fail
\* for the inputs of the call.
ResolutionErrors ==
    (IF callIn.missing = "none" THEN {}
     ELSE {<<callIn.missing \o " '" \o lookupName(callIn.missing, callIn.relocateSpec)
               \o "' not found">>})
    \cup (IF callIn.deviceErr
          THEN {<<"Failed to find devices of virtual machine">> \o StartError}
          ELSE IF \A i \in 1..Len(callIn.devices) : callIn.devices[i].kind # "VirtualVmxnet3"
          THEN {<<"VM doesn't have a network card">>}
          ELSE {})

\* C31: RelocateVirtualMachine starts the relocate task only when the host,
\* pool, datastore, network and folder of the relocate spec all resolve and
\* the VM has a vmxnet3 device; when one of them fails it returns the error
\* of a failing lookup and neither starts nor hands over a relocate.
C31_RelocateAllOrNothing ==
    RelocateReturned =>
       /\ "vcVM.Relocate" \in Range(callLog) <=> ResolutionErrors = {}
       /\ ResolutionErrors # {} =>
             /\ callOut.err \in ResolutionErrors
             /\ callOut.value = <<>>
             /\ Range(callLog) \cap TaskWaits = {}

C31_Witness ==
    /\ RelocateReturned
    /\ callIn.missing = "Folder"
    /\ callOut.err = <<"Folder 'folder-dst' not found">>
    /\ "Network" \in Range(callLog)
    /\ "vcVM.Relocate" \notin Range(callLog)

\* ------------------------------------------------------------------------
\* Properties of SpecPool
\* ------------------------------------------------------------------------

\* The calls of poolLog by function, and those that returned nil.
IsCreateCall(c) == c.fn = "CreateOrUpdateChildResourcePool"

IsDeleteCall(c) == c.fn = "DeleteChildResourcePool"

\* The lookup of the child failed in the call.
LookupFailed(c) == c.calls = <<"findChildRP">> /\ c.err # Nil

\* C39: CreateOrUpdateChildResourcePool calls Create only when it found no
\* child of the name, and for an existing child pool returns that pool's
\* MoID without a Create; so of two calls in a row that return nil the
\* second creates nothing and returns the MoID the first returned.
\* DeleteChildResourcePool for a name with no child returns nil without a
\* Destroy; so after a DeleteChildResourcePool that destroyed the child and
\* returned nil, a second one whose lookup does not fail returns nil again
\* without a Destroy.
C39_ChildPoolIdempotent ==
    /\ \A i \in 1..Len(poolLog) :
          /\ IsCreateCall(poolLog[i]) =>
                /\ "parentRP.Create" \in Range(poolLog[i].calls)
                      <=> (poolLog[i].before.state = "absent" /\ ~LookupFailed(poolLog[i]))
                /\ poolLog[i].before.state = "match" =>
                      \/ LookupFailed(poolLog[i])
                      \/ poolLog[i].err = Nil /\ poolLog[i].moid = poolLog[i].before.moid
          /\ (IsDeleteCall(poolLog[i]) /\ poolLog[i].before.state = "absent") =>
                /\ "childRP.Destroy" \notin Range(poolLog[i].calls)
                /\ LookupFailed(poolLog[i]) \/ poolLog[i].err = Nil
    /\ \A i \in 1..(Len(poolLog) - 1) :
          /\ (/\ IsCreateCall(poolLog[i]) /\ poolLog[i].err = Nil
              /\ IsCreateCall(poolLog[i + 1]) /\ poolLog[i + 1].err = Nil) =>
                /\ "parentRP.Create" \notin Range(poolLog[i + 1].calls)
                /\ poolLog[i + 1].moid = poolLog[i].moid
          /\ (/\ IsDeleteCall(poolLog[i]) /\ poolLog[i].err = Nil
              /\ IsDeleteCall(poolLog[i + 1]) /\ ~LookupFailed(poolLog[i + 1])) =>
                /\ poolLog[i + 1].err = Nil
                /\ "childRP.Destroy" \notin Range(poolLog[i + 1].calls)
    /\ poolCreated <= Cardinality({i \in 1..Len(poolLog) :
                                     /\ IsCreateCall(poolLog[i])
                                     /\ poolLog[i].before.state = "absent"})

\* The first CreateOrUpdateChildResourcePool created the child pool, the
\* second returned its MoID without a Create, and a DeleteChildResourcePool
\* then destroyed it: one pool was created in all.
C39_Witness ==
    /\ Len(poolLog) = 3
    /\ IsCreateCall(poolLog[1])
    /\ "parentRP.Create" \in Range(poolLog[1].calls)
    /\ poolLog[1].err = Nil
    /\ IsCreateCall(poolLog[2])
    /\ poolLog[2].err = Nil
    /\ poolLog[2].moid = "resgroup-1"
    /\ poolLog[2].calls = <<"findChildRP">>
    /\ IsDeleteCall(poolLog[3])
    /\ poolLog[3].err = Nil
    /\ "childRP.Destroy" \in Range(poolLog[3].calls)
    /\ poolCreated = 1
    /\ poolInv.state = "absent"

====
